---------------------------- MODULE Spec2Model ----------------------------
(***************************************************************************)
(* Playback controller of clanki (src/clanki/audio.py).                    *)
(*                                                                         *)
(* The module-level session fields _running_process, _playback_thread and  *)
(* _playback_stop_event are shared by caller threads (stop_audio,          *)
(* play_audio_files, play_audio_by_index) and by the worker threads that   *)
(* play_audio_files starts.  Every `with _process_lock:` block of the      *)
(* source is one atomic action here; the code between two blocks is a      *)
(* separate action, so that other threads interleave exactly where the     *)
(* lock is not held.                                                       *)
(*                                                                         *)
(* Identities: a worker thread and the threading.Event created with it in  *)
(* one play_audio_files call share one id (the index into `workers`); a    *)
(* Popen object is the index into `procs`; None is 0.                      *)
(***************************************************************************)
EXTENDS Integers, Sequences, FiniteSets, TLC

(* ------------------------------ bounds -------------------------------- *)
\* play requests that get past the backend check, over all callers
MaxPlays == 2
\* direct calls of stop_audio(), over all callers
MaxStops == 1

None == 0

(* --------------------------- environment ------------------------------ *)
MediaDir == "media"
\* file names are character sequences
NameA == <<"a">>
NameB == <<"b">>
NameGone == <<"g">>
\* file names besides these: an absolute path, a path through the parent
\* directory, and a superscript two
NameAbsolute == <<"/", "s">>
NameParent == <<".", ".", "/", "s">>
NameSuperTwo == <<"U+00B2">>
\* Path objects: <<directory, name>>; media_dir / name, where an absolute
\* name replaces the directory
RootDir == "/"
JoinPath(dir, name) ==
    IF name # <<>> /\ Head(name) = "/" THEN <<RootDir, Tail(name)>>
    ELSE <<dir, name>>
\* Path.exists(): two files in the media directory, the media directory
\* itself (media_dir / ""), and a file s in the root directory, which is
\* the parent of the media directory
ExistingPaths == {JoinPath(MediaDir, NameA), JoinPath(MediaDir, NameB),
                  JoinPath(MediaDir, <<>>), JoinPath(MediaDir, NameAbsolute),
                  JoinPath(MediaDir, NameParent)}
Exists(path) == path \in ExistingPaths

\* the file lists handed to play_audio_files: empty, nothing existing,
\* two clips around a missing file
PlayLists ==
    { <<>>,
      <<JoinPath(MediaDir, NameGone)>>,
      <<JoinPath(MediaDir, NameA), JoinPath(MediaDir, NameGone),
        JoinPath(MediaDir, NameB)>> }

\* on_error arguments: None, or a callable (which may raise when invoked)
Callbacks == {"none", "given"}

\* where the program runs: sys.platform, the binaries shutil.which finds,
\* and the on_error argument the application passes to its calls
Environments ==
    { [platform |-> "linux",  path |-> {"ffplay"}, on_error |-> "given"],
      [platform |-> "linux",  path |-> {},         on_error |-> "given"],
      [platform |-> "linux",  path |-> {},         on_error |-> "none"],
      [platform |-> "darwin", path |-> {},         on_error |-> "given"],
      [platform |-> "win32",  path |-> {},         on_error |-> "given"],
      [platform |-> "sunos5", path |-> {},         on_error |-> "given"] }

\* the threads that call into the module; SingleCaller makes its calls one
\* at a time, ConcurrentCallers call independently of each other
SingleCaller == {"ui"}
ConcurrentCallers == {"ui", "timer"}

VARIABLES
    env,                  \* an element of Environments, fixed for a run
    backend_checked,      \* _backend_checked
    audio_backend,        \* _audio_backend: a backend name, or "None"
    running_process,      \* _running_process: proc id or None
    playback_thread,      \* _playback_thread: worker id or None
    playback_stop_event,  \* _playback_stop_event: event id or None
    workers,              \* one record per Thread/Event pair created
    procs,                \* one record per Popen object created
    callers,              \* one record per caller thread
    calls,                \* calls made so far: [play |-> .., stop |-> ..]
    card_text,            \* the text argument of a text function: characters
    outcome,              \* the text function applied to it, and its result
    renderer,             \* the fields of one _HTMLToTextRenderer
    fed,                  \* the parser events it has handled, in order
    screen                \* the ReviewScreen, its session and the app's stats

vars == <<env, backend_checked, audio_backend, running_process,
          playback_thread, playback_stop_event, workers, procs, callers, calls,
          card_text, outcome, renderer, fed, screen>>

session == <<running_process, playback_thread, playback_stop_event>>

\* the variables of text rendering and of the review screen, which the
\* playback controller neither reads nor writes
rendering == <<card_text, outcome, renderer, fed, screen>>

(* ------------------------- sequence helpers --------------------------- *)
\* [f for f in files if f.exists()]
ExistingFiles(files) == SelectSeq(files, Exists)

(* ------------------------- backend detection -------------------------- *)
\* _backend_candidates: binaries in preferred order
BackendCandidates(platform) ==
    IF platform = "darwin" THEN <<"afplay", "ffplay">> ELSE <<"ffplay">>

RECURSIVE FirstAvailable(_, _)
FirstAvailable(cands, path) ==
    IF cands = <<>> THEN "None"
    ELSE IF Head(cands) \in path THEN Head(cands)
    ELSE FirstAvailable(Tail(cands), path)

\* _detect_audio_backend: the value returned (cached value once checked)
DetectedBackend ==
    IF backend_checked THEN audio_backend
    ELSE FirstAvailable(BackendCandidates(env.platform), env.path)

\* _detect_audio_backend: its effect on the cache
DetectAudioBackend ==
    /\ backend_checked' = TRUE
    /\ audio_backend' = DetectedBackend

\* get_audio_unavailable_message, for the backend its own detection returns
UnavailableMessage(backend, platform) ==
    IF backend # "None" THEN ""
    ELSE IF platform = "darwin"
         THEN "No supported audio player found (need afplay or ffplay)"
    ELSE IF platform = "win32"
         THEN "No supported audio player found (install ffmpeg and add ffplay to PATH)"
    ELSE IF platform = "linux"
         THEN "No supported audio player found (install ffmpeg for ffplay)"
    ELSE "No supported audio player found (need ffplay on PATH)"

(* --------------------------- error callback --------------------------- *)
\* variant: the message is dropped instead of being handed to the callback
EmitOnErrorDropped(cb, message, raises) ==
    [delivered |-> <<>>, raised |-> FALSE]

\* _emit_on_error (221-229): the callback, when there is one, receives the
\* message; an exception it raises is swallowed
EmitOnError(cb, message, raises) ==
    [delivered |-> IF cb = "none" THEN <<>> ELSE <<message>>,
     raised    |-> FALSE]

\* `if on_error: on_error(message)` (424-425, 431-432): the bare call
CallOnError(cb, message, raises) ==
    [delivered |-> IF cb = "none" THEN <<>> ELSE <<message>>,
     raised    |-> cb # "none" /\ raises]

(* ------------------------------ records ------------------------------- *)
\* a caller thread outside any call
NewCaller ==
    [pc |-> "idle", op |-> "none", files |-> <<>>,
     proc |-> None, thread |-> None, mine |-> None,
     line |-> 0, res |-> "unset", errs |-> <<>>]

\* a caller thread whose call of op has returned res at the given source
\* line (or has raised there), after its callback received errs
Returned(op, line, res, errs) ==
    [NewCaller EXCEPT !.op = op, !.line = line, !.res = res, !.errs = errs]

\* threading.Event() and threading.Thread(target=_worker) of one play
\* request, with the closure variables of _worker
NewWorker(files) ==
    [pc |-> "created", files |-> files, i |-> 1, proc |-> None,
     stop |-> FALSE, brk |-> FALSE, raised |-> FALSE]

\* a thread whose run() has returned: its frame and its event are gone
DoneWorker == [NewWorker(<<>>) EXCEPT !.pc = "done"]

\* a thread whose start() raised: it never runs
FailedWorker == [NewWorker(<<>>) EXCEPT !.pc = "failed"]

\* a Popen object launched by worker w for files[i]; rc is its returncode
\* once it has exited, negative when a signal ended it; reported records
\* that its exit status went to _emit_on_error
NewProc(w, i, file, binary) ==
    [owner |-> w, i |-> i, file |-> file, binary |-> binary,
     state |-> "running", rc |-> 0, reported |-> FALSE]

\* Thread.is_alive(): started and run() not yet finished
IsAlive(w) == workers[w].pc \notin {"created", "failed", "done"}

WorkerIds == 1..Len(workers)
ProcIds == 1..Len(procs)
Callers == DOMAIN callers

\* no text function has been applied
NoOutcome == [op |-> "none"]

\* _HTMLToTextRenderer.__init__ (29-40)
NewRenderer ==
    [chunks |-> <<>>, skip_depth |-> 0, list_depth |-> 0,
     in_list_item |-> FALSE, in_ruby |-> FALSE, ruby_base |-> <<>>,
     in_rt |-> FALSE, rt_text |-> <<>>]

\* no review screen has been mounted
NoScreen == [mounted |-> FALSE]

InitWith(threads) ==
    /\ env \in Environments
    /\ backend_checked = FALSE
    /\ audio_backend = "None"
    /\ running_process = None
    /\ playback_thread = None
    /\ playback_stop_event = None
    /\ workers = <<>>
    /\ procs = <<>>
    /\ callers = [c \in threads |-> NewCaller]
    /\ calls = [play |-> 0, stop |-> 0]
    /\ card_text = <<>>
    /\ outcome = NoOutcome
    /\ renderer = NewRenderer
    /\ fed = <<>>
    /\ screen = NoScreen

Init == InitWith(ConcurrentCallers)

InitSingle == InitWith(SingleCaller)

(* ======================= stop_audio (232-263) ========================= *)
\* 236-241: set the registered stop event, snapshot process and thread
StopSnapshot(c, op, files) ==
    /\ workers' = IF playback_stop_event # None
                  THEN [workers EXCEPT ![playback_stop_event].stop = TRUE]
                  ELSE workers
    /\ callers' = [callers EXCEPT ![c] =
                     [NewCaller EXCEPT !.op = op, !.files = files,
                                       !.proc = running_process,
                                       !.thread = playback_thread,
                                       !.pc = "stop_terminate"]]
    /\ UNCHANGED session

\* a call of stop_audio(), up to the end of its first critical section
StopAudio(c) ==
    /\ callers[c].pc = "idle"
    /\ calls.stop < MaxStops
    /\ calls' = [calls EXCEPT !.stop = @ + 1]
    /\ StopSnapshot(c, "stop", <<>>)
    /\ UNCHANGED <<env, rendering, backend_checked, audio_backend, procs>>

\* returncode of a process ended by terminate() within the grace period
\* (-SIGTERM) and by kill() after it (-SIGKILL)
TerminateCodes == {-15}
KillCodes == {-9}

\* variant: the snapshot process is left running
StopTerminateNoKill(c) ==
    /\ callers[c].pc = "stop_terminate"
    /\ callers' = [callers EXCEPT ![c].pc = "stop_final"]
    /\ UNCHANGED <<env, rendering, backend_checked, audio_backend, session, workers,
                   procs, calls>>

\* 243-253: terminate(), wait(timeout=0.2), kill() on timeout.  A process
\* that has already exited is left as it is.
StopTerminate(c) ==
    /\ callers[c].pc = "stop_terminate"
    /\ LET p == callers[c].proc IN
         IF p # None /\ procs[p].state = "running"
         THEN \E rc \in TerminateCodes \cup KillCodes :
                procs' = [procs EXCEPT ![p].state = "exited", ![p].rc = rc]
         ELSE procs' = procs
    /\ callers' = [callers EXCEPT ![c].pc = "stop_final"]
    /\ UNCHANGED <<env, rendering, backend_checked, audio_backend, session, workers, calls>>

\* variant: the final block clears the fields without comparing them with
\* the snapshot
StopFinalUnconditional(c) ==
    /\ callers[c].pc = "stop_final"
    /\ running_process' = None
    /\ playback_thread' = None
    /\ playback_stop_event' = None
    /\ callers' = IF callers[c].op = "stop"
                  THEN [callers EXCEPT ![c] = Returned("stop", 263, "None", <<>>)]
                  ELSE [callers EXCEPT ![c].pc = "play_register"]
    /\ UNCHANGED <<env, rendering, backend_checked, audio_backend, workers, procs, calls>>

\* 255-263: after the bounded join (which changes nothing), clear what this
\* call stopped, then return: to the caller, or into play_audio_files
StopFinal(c) ==
    /\ callers[c].pc = "stop_final"
    /\ LET proc == callers[c].proc
           thread == callers[c].thread
           clearThread == /\ playback_thread = thread
                          /\ (thread = None \/ ~IsAlive(thread))
       IN /\ running_process' =
                IF running_process = proc THEN None ELSE running_process
          /\ playback_thread' =
                IF clearThread THEN None ELSE playback_thread
          /\ playback_stop_event' =
                IF clearThread THEN None ELSE playback_stop_event
    /\ callers' = IF callers[c].op = "stop"
                  THEN [callers EXCEPT ![c] = Returned("stop", 263, "None", <<>>)]
                  ELSE [callers EXCEPT ![c].pc = "play_register"]
    /\ UNCHANGED <<env, rendering, backend_checked, audio_backend, workers, procs, calls>>

(* ==================== play_audio_files (266-376) ====================== *)
\* variant: the empty list is not short-circuited; the call goes on to the
\* backend check and stop_audio() like any other
PlayEntryStopsFirst(c, op, files, raises) ==
    /\ DetectAudioBackend
    /\ IF DetectedBackend = "None"
       THEN /\ callers' = [callers EXCEPT ![c] =
                 Returned(op, 291, "False",
                          EmitOnError(env.on_error,
                              UnavailableMessage(DetectedBackend, env.platform),
                              raises).delivered)]
            /\ UNCHANGED <<calls, workers, session>>
       ELSE /\ StopSnapshot(c, op, files)
            /\ calls' = [calls EXCEPT !.play = @ + 1]

\* 285-294: empty list, backend detection, and the first critical section
\* of the stop_audio() it calls
PlayEntry(c, op, files, raises) ==
    IF files = <<>>
    THEN /\ callers' = [callers EXCEPT ![c] = Returned(op, 286, "True", <<>>)]
         /\ UNCHANGED <<backend_checked, audio_backend, calls, workers, session>>
    ELSE /\ DetectAudioBackend
         /\ IF DetectedBackend = "None"
            THEN LET e == EmitOnError(env.on_error,
                            UnavailableMessage(DetectedBackend, env.platform),
                            raises)
                 IN /\ callers' = [callers EXCEPT ![c] =
                          Returned(op, 291,
                                   IF e.raised THEN "raised" ELSE "False",
                                   e.delivered)]
                    /\ UNCHANGED <<calls, workers, session>>
            ELSE /\ StopSnapshot(c, op, files)
                 /\ calls' = [calls EXCEPT !.play = @ + 1]

PlayAudioFiles(c) ==
    /\ callers[c].pc = "idle"
    /\ calls.play < MaxPlays
    /\ \E files \in PlayLists, raises \in BOOLEAN :
          PlayEntry(c, "play", files, raises)
    /\ UNCHANGED <<env, rendering, procs>>

\* 296-366: filter to existing files; create the stop event and the worker
\* thread and register both under the lock
PlayRegister(c) ==
    /\ callers[c].pc = "play_register"
    /\ LET existing_files == ExistingFiles(callers[c].files)
           thread == Len(workers) + 1
       IN IF existing_files = <<>>
          THEN /\ callers' = [callers EXCEPT ![c] =
                                Returned(callers[c].op, 299, "True", <<>>)]
               /\ UNCHANGED <<session, workers>>
          ELSE /\ workers' = Append(workers,
                                    NewWorker(existing_files))
               /\ playback_thread' = thread
               /\ playback_stop_event' = thread
               /\ callers' = [callers EXCEPT ![c].mine = thread,
                                             ![c].pc = "play_start"]
               /\ UNCHANGED running_process
    /\ UNCHANGED <<env, rendering, backend_checked, audio_backend, procs, calls>>

\* 367-376: thread.start() succeeds and the call returns True, or it raises
\* RuntimeError: unregister the thread if still registered, report, False
PlayStart(c) ==
    /\ callers[c].pc = "play_start"
    /\ \/ /\ workers' = [workers EXCEPT ![callers[c].mine].pc = "loop"]
          /\ callers' = [callers EXCEPT ![c] =
                           Returned(callers[c].op, 376, "True", <<>>)]
          /\ UNCHANGED session
       \/ \E raises \in BOOLEAN :
          LET mineRegistered == playback_thread = callers[c].mine
              e == EmitOnError(env.on_error, "Failed to start audio playback",
                               raises)
          IN /\ playback_thread' =
                   IF mineRegistered THEN None ELSE playback_thread
             /\ playback_stop_event' =
                   IF mineRegistered THEN None ELSE playback_stop_event
             /\ callers' = [callers EXCEPT ![c] =
                   Returned(callers[c].op, 375,
                            IF e.raised THEN "raised" ELSE "False", e.delivered)]
             /\ workers' = [workers EXCEPT ![callers[c].mine] = FailedWorker]
             /\ UNCHANGED running_process
    /\ UNCHANGED <<env, rendering, backend_checked, audio_backend, procs, calls>>

(* ============== placeholders and resolve_audio_files (25-131) ========= *)
\* A text is a sequence of tokens: a stretch of other characters, or one
\* match of AUDIO_PLACEHOLDER_PATTERN with the characters between
\* "[audio:" and "]".
TextToken(chars) == [kind |-> "text", chars |-> chars]
AudioToken(raw) == [kind |-> "audio", raw |-> raw]

Whitespace == {" "}
Digits == {"0", "1", "2", "3", "4", "5", "6", "7", "8", "9"}
\* characters for which str.isdigit() is true and which int() rejects
SuperDigits == {"U+00B2"}

RECURSIVE LStrip(_)
LStrip(s) ==
    IF s # <<>> /\ Head(s) \in Whitespace THEN LStrip(Tail(s)) ELSE s

RECURSIVE RStrip(_)
RStrip(s) ==
    IF s # <<>> /\ s[Len(s)] \in Whitespace
    THEN RStrip(SubSeq(s, 1, Len(s) - 1)) ELSE s

\* str.strip()
Strip(s) == RStrip(LStrip(s))

\* len() of the text a token stands for; "[audio:" has 7 characters
TokenLen(t) == IF t.kind # "text" THEN 7 + Len(t.raw) + 1 ELSE Len(t.chars)

RECURSIVE ParseFrom(_, _)
ParseFrom(text, offset) ==
    IF text = <<>> THEN <<>>
    ELSE LET t == Head(text)
             rest == ParseFrom(Tail(text), offset + TokenLen(t))
         IN IF t.kind = "audio"
            THEN <<[value |-> Strip(t.raw), start |-> offset,
                    end |-> offset + TokenLen(t)]>> \o rest
            ELSE rest

\* parse_audio_placeholders (47-65)
ParseAudioPlaceholders(text) == ParseFrom(text, 0)

\* AudioPlaceholder.is_index (36-39): str.isdigit()
IsIndex(value) ==
    value # <<>> /\ \A k \in 1..Len(value) : value[k] \in Digits \cup SuperDigits

\* int(value) raises ValueError
IntRaises(value) == \E k \in 1..Len(value) : value[k] \notin Digits

DigitValue(ch) ==
    CASE ch = "0" -> 0 [] ch = "1" -> 1 [] ch = "2" -> 2 [] ch = "3" -> 3
      [] ch = "4" -> 4 [] ch = "5" -> 5 [] ch = "6" -> 6 [] ch = "7" -> 7
      [] ch = "8" -> 8 [] ch = "9" -> 9

RECURSIVE IntOf(_)
\* AudioPlaceholder.index (41-44): int(value)
IntOf(value) ==
    IF value = <<>> THEN 0
    ELSE 10 * IntOf(SubSeq(value, 1, Len(value) - 1)) + DigitValue(value[Len(value)])

RECURSIVE ResolveFrom(_, _, _)
ResolveFrom(placeholders, audio_files, media_dir) ==
    IF placeholders = <<>> THEN <<>>
    ELSE LET ph == Head(placeholders)
             rest == ResolveFrom(Tail(placeholders), audio_files, media_dir)
             filepath ==
                 IF IsIndex(ph.value)
                 THEN IF 0 <= IntOf(ph.value) /\ IntOf(ph.value) < Len(audio_files)
                      THEN <<JoinPath(media_dir, audio_files[IntOf(ph.value) + 1])>>
                      ELSE <<>>
                 ELSE <<JoinPath(media_dir, ph.value)>>
         IN IF filepath # <<>> /\ Exists(filepath[1])
            THEN filepath \o rest
            ELSE rest

\* resolve_audio_files (92-131)
ResolveAudioFiles(text, audio_files, media_dir) ==
    IF media_dir = "None" THEN <<>>
    ELSE ResolveFrom(ParseAudioPlaceholders(text), audio_files, media_dir)

\* resolve_audio_files raises: placeholder.index (121) calls int() on a
\* value that isdigit() accepts and int() rejects
ResolveRaises(text, audio_files, media_dir) ==
    /\ media_dir # "None"
    /\ LET placeholders == ParseAudioPlaceholders(text)
       IN \E k \in 1..Len(placeholders) :
            IsIndex(placeholders[k].value) /\ IntRaises(placeholders[k].value)

(* ================== play_audio_by_index (403-435) ===================== *)
\* the requests made: text, audio_files, media_dir, index
IndexTexts ==
    { <<TextToken(<<"h", "i">>)>>,
      <<AudioToken(<<" ", "0">>)>>,
      <<AudioToken(<<" ", "g">>), TextToken(<<" ">>), AudioToken(<<"0">>)>> }

IndexRequests ==
    [text : IndexTexts, audio_files : {<<NameA>>},
     media_dir : {"None", MediaDir}, index : 0..2]

\* 422-435: resolve; report an empty list or an index out of range through
\* a bare call of on_error; otherwise play the one file
PlayAudioByIndex(c) ==
    /\ callers[c].pc = "idle"
    /\ calls.play < MaxPlays
    /\ \E req \in IndexRequests, raises \in BOOLEAN :
         LET resolved == ResolveAudioFiles(req.text, req.audio_files,
                                           req.media_dir)
             zero_index == req.index - 1
         IN IF resolved = <<>>
            THEN LET e == CallOnError(env.on_error, "No audio files available",
                                      raises)
                 IN /\ callers' = [callers EXCEPT ![c] =
                          Returned("by_index", IF e.raised THEN 425 ELSE 426,
                                   IF e.raised THEN "raised" ELSE "False",
                                   e.delivered)]
                    /\ UNCHANGED <<backend_checked, audio_backend, calls,
                                   workers, session>>
            ELSE IF zero_index < 0 \/ zero_index >= Len(resolved)
            THEN LET e == CallOnError(env.on_error, "Audio index not found",
                                      raises)
                 IN /\ callers' = [callers EXCEPT ![c] =
                          Returned("by_index", IF e.raised THEN 432 ELSE 433,
                                   IF e.raised THEN "raised" ELSE "False",
                                   e.delivered)]
                    /\ UNCHANGED <<backend_checked, audio_backend, calls,
                                   workers, session>>
            ELSE PlayEntry(c, "by_index", <<resolved[zero_index + 1]>>, raises)
    /\ UNCHANGED <<env, rendering, procs>>

(* ================== the worker thread _worker (304-356) =============== *)
\* 307-309: next file of the for loop, stop event checked without the lock
WorkerLoop(w) ==
    /\ workers[w].pc = "loop"
    /\ workers' = IF workers[w].i > Len(workers[w].files) \/ workers[w].stop
                  THEN [workers EXCEPT ![w].pc = "final"]
                  ELSE [workers EXCEPT ![w].pc = "launch"]
    /\ UNCHANGED <<env, rendering, backend_checked, audio_backend, session, procs,
                   callers, calls>>

\* variant: only the ownership is re-checked under the lock
MayLaunchOwnershipOnly(w) == playback_thread = w

\* the guard of line 316: may this worker launch now
MayLaunch(w) == ~workers[w].stop /\ playback_thread = w

\* 311-335: under the lock re-check stop event and ownership, then Popen,
\* which returns a process (recorded in _running_process) or raises; a
\* launch failure is reported and ends the loop
WorkerLaunch(w) ==
    /\ workers[w].pc = "launch"
    /\ IF ~MayLaunch(w)
       THEN /\ workers' = [workers EXCEPT ![w].pc = "final"]
            /\ UNCHANGED <<running_process, procs>>
       ELSE \/ LET proc == Len(procs) + 1 IN
               /\ procs' = Append(procs,
                     NewProc(w, workers[w].i, workers[w].files[workers[w].i],
                             audio_backend))
               /\ running_process' = proc
               /\ workers' = [workers EXCEPT ![w].proc = proc, ![w].pc = "wait"]
            \/ \E raises \in BOOLEAN :
               LET e == EmitOnError(env.on_error,
                                    "Failed to start audio playback (binary)",
                                    raises)
               IN /\ workers' = [workers EXCEPT ![w].raised = e.raised,
                                               ![w].brk = TRUE,
                                               ![w].pc = "final"]
                  /\ UNCHANGED <<running_process, procs>>
    /\ UNCHANGED <<env, rendering, backend_checked, audio_backend, playback_thread,
                   playback_stop_event, callers, calls>>

\* variant: a non-zero exit status is never reported and never ends the loop
ReportsExitNever(w, return_code) == FALSE

\* the condition of line 341: is this exit status reported
ReportsExit(w, return_code) == return_code # 0 /\ ~workers[w].stop

\* 339-350: proc.wait() returns once the process has exited; a non-zero
\* status is reported, and ends the loop, unless the worker's stop event is
\* set; in the finally block the process is forgotten if it is still the
\* recorded one
WorkerWait(w) ==
    /\ workers[w].pc = "wait"
    /\ LET proc == workers[w].proc
           return_code == procs[proc].rc
       IN /\ procs[proc].state = "exited"
          /\ IF ReportsExit(w, return_code)
             THEN \E raises \in BOOLEAN :
                  LET e == EmitOnError(env.on_error,
                                       "Audio playback exited with status",
                                       raises)
                  IN /\ workers' = [workers EXCEPT ![w].raised = e.raised,
                                                   ![w].brk = TRUE,
                                                   ![w].pc = "final"]
                     /\ procs' = [procs EXCEPT ![proc].reported = TRUE]
             ELSE /\ workers' = [workers EXCEPT ![w].pc = "loop",
                                                ![w].i = @ + 1]
                  /\ UNCHANGED procs
          /\ running_process' = IF running_process = proc
                                THEN None ELSE running_process
    /\ UNCHANGED <<env, rendering, backend_checked, audio_backend, playback_thread,
                   playback_stop_event, callers, calls>>

\* a Popen object nobody waits for any more: identity and exit only
Reaped(p) == [procs[p] EXCEPT !.rc = 0, !.reported = FALSE]

\* variant: the final cleanup clears the fields whoever is registered
WorkerFinalNoIdentityCheck(w) ==
    /\ workers[w].pc = "final"
    /\ running_process' = None
    /\ playback_thread' = None
    /\ playback_stop_event' = None
    /\ workers' = [workers EXCEPT ![w] = DoneWorker]
    /\ procs' = [p \in ProcIds |->
                   IF procs[p].owner = w THEN Reaped(p) ELSE procs[p]]
    /\ UNCHANGED <<env, rendering, backend_checked, audio_backend, callers, calls>>

\* variant: the final cleanup leaves the session fields as they are
WorkerFinalKeepsRegistration(w) ==
    /\ workers[w].pc = "final"
    /\ workers' = [workers EXCEPT ![w] = DoneWorker]
    /\ procs' = [p \in ProcIds |->
                   IF procs[p].owner = w THEN Reaped(p) ELSE procs[p]]
    /\ UNCHANGED <<env, rendering, backend_checked, audio_backend, session, callers, calls>>

\* 351-356: the final cleanup, only by the registered worker; run() then
\* returns and the thread is gone
WorkerFinal(w) ==
    /\ workers[w].pc = "final"
    /\ IF playback_thread = w
       THEN /\ running_process' = None
            /\ playback_thread' = None
            /\ playback_stop_event' = None
       ELSE UNCHANGED session
    /\ workers' = [workers EXCEPT ![w] = DoneWorker]
    /\ procs' = [p \in ProcIds |->
                   IF procs[p].owner = w THEN Reaped(p) ELSE procs[p]]
    /\ UNCHANGED <<env, rendering, backend_checked, audio_backend, callers, calls>>

(* ===================== the external player process ==================== *)
\* exit statuses of a player that ends by itself
ExitCodes == {0, 1}

\* the player finishes the clip, or fails
ProcExit(p) ==
    /\ procs[p].state = "running"
    /\ \E rc \in ExitCodes :
          procs' = [procs EXCEPT ![p].state = "exited", ![p].rc = rc]
    /\ UNCHANGED <<env, rendering, backend_checked, audio_backend, session, workers,
                   callers, calls>>

(* ================= texts and the placeholder pattern ================== *)
\* the literal parts of AUDIO_PLACEHOLDER_PATTERN and
\* IMAGE_PLACEHOLDER_PATTERN: "[audio:", "[image:" and "]"
AudioOpen == <<"[", "a", "u", "d", "i", "o", ":">>
ImageOpen == <<"[", "i", "m", "a", "g", "e", ":">>
CloseBracket == "]"

\* AUDIO_ICON: the four code points of the string literal at line 22
AudioIcon == <<"U+00F0", "U+0178", "U+201D", "U+0160">>

\* text[start:end] of Python, for 0-based offsets
Slice(text, start, end) == SubSeq(text, start + 1, end)

\* "".join(seqs)
RECURSIVE Concat(_)
Concat(seqs) == IF seqs = <<>> THEN <<>> ELSE Head(seqs) \o Concat(Tail(seqs))

HasPrefix(s, prefix) ==
    Len(s) >= Len(prefix) /\ SubSeq(s, 1, Len(prefix)) = prefix

\* position of the first "]" of s, 0 when there is none
FirstClose(s) ==
    IF \E k \in 1..Len(s) : s[k] = CloseBracket
    THEN CHOOSE k \in 1..Len(s) :
            s[k] = CloseBracket /\ \A j \in 1..(k - 1) : s[j] # CloseBracket
    ELSE 0

\* pattern.finditer(text) for the pattern  open \s*([^\]]+) "]" : scanning
\* from the left, a match begins at an occurrence of open that is followed
\* by at least one character other than "]" and then by "]"; it ends at that
\* first "]", and the scan goes on behind it.  Whatever \s* consumes, the
\* stripped group is the stripped stretch between open and "]" (raw).
\* Characters outside matches are text tokens of one character.
RECURSIVE Scan(_, _, _)
Scan(s, open, kind) ==
    IF s = <<>> THEN <<>>
    ELSE LET after == SubSeq(s, Len(open) + 1, Len(s))
             close == FirstClose(after)
         IN IF HasPrefix(s, open) /\ close >= 2
            THEN <<[kind |-> kind, raw |-> SubSeq(after, 1, close - 1)]>>
                 \o Scan(SubSeq(after, close + 1, Len(after)), open, kind)
            ELSE <<TextToken(<<Head(s)>>)>> \o Scan(Tail(s), open, kind)

\* the matches of AUDIO_PLACEHOLDER_PATTERN in a string, with the text
\* between them
AudioTokens(s) == Scan(s, AudioOpen, "audio")

\* the matches of IMAGE_PLACEHOLDER_PATTERN in a string
ImageTokens(s) == Scan(s, ImageOpen, "image")

\* "[audio:" ref "]" and "[image:" ref "]" as they stand in a card text
Audio(ref) == AudioOpen \o ref \o <<CloseBracket>>
Image(ref) == ImageOpen \o ref \o <<CloseBracket>>

(* ================= substitute_audio_icons (68-89) ===================== *)
\* str(key) for a one-digit key
DigitChar(key) == CHOOSE ch \in Digits : DigitValue(ch) = key

\* variant: the last key is lost to an off-by-one comparison
IconWithKeyBelowNine(counter) ==
    LET key == counter + 4
    IN IF key < 9
       THEN AudioIcon \o <<"[", DigitChar(key), "]">>
       ELSE AudioIcon

\* replace_with_key (80-87), for the counter after its increment
IconWithKey(counter) ==
    LET key == counter + 4
    IN IF key <= 9
       THEN AudioIcon \o <<"[", DigitChar(key), "]">>
       ELSE AudioIcon

RECURSIVE SubstituteFrom(_, _)
SubstituteFrom(tokens, counter) ==
    IF tokens = <<>> THEN <<>>
    ELSE LET t == Head(tokens)
         IN IF t.kind = "audio"
            THEN IconWithKey(counter + 1)
                 \o SubstituteFrom(Tail(tokens), counter + 1)
            ELSE t.chars \o SubstituteFrom(Tail(tokens), counter)

\* substitute_audio_icons: pattern.sub with a counter that starts at 0
SubstituteAudioIcons(s) == SubstituteFrom(AudioTokens(s), 0)

(* ============ image placeholders and rendering (tui/render.py) ======== *)
RECURSIVE ParseImageFrom(_, _)
ParseImageFrom(tokens, offset) ==
    IF tokens = <<>> THEN <<>>
    ELSE LET t == Head(tokens)
             rest == ParseImageFrom(Tail(tokens), offset + TokenLen(t))
         IN IF t.kind = "image"
            THEN <<[filename |-> Strip(t.raw), start |-> offset,
                    end |-> offset + TokenLen(t)]>> \o rest
            ELSE rest

\* parse_image_placeholders (34-52)
ParseImagePlaceholders(s) == ParseImageFrom(ImageTokens(s), 0)

\* the items of the returned list: Text(chars) and ImageMarker(path)
TextItem(chars) == [kind |-> "text", chars |-> chars]
MarkerItem(path) == [kind |-> "marker", path |-> path]

\* 141-152 and 565-576: the marker when media_dir is given and the file
\* exists (_create_image_renderable), the formatted placeholder otherwise
PlaceholderItem(placeholder, media_dir) ==
    IF media_dir # "None" /\ Exists(JoinPath(media_dir, placeholder.filename))
    THEN MarkerItem(JoinPath(media_dir, placeholder.filename))
    ELSE TextItem(ImageOpen \o <<" ">> \o placeholder.filename
                  \o <<CloseBracket>>)

\* the loops of 134-160 and 558-584 over the placeholders, slicing text
RECURSIVE RenderFrom(_, _, _, _)
RenderFrom(text, placeholders, media_dir, last_end) ==
    IF placeholders = <<>>
    THEN IF last_end < Len(text)
         THEN <<TextItem(Slice(text, last_end, Len(text)))>>
         ELSE <<>>
    ELSE LET placeholder == Head(placeholders)
         IN (IF placeholder.start > last_end
             THEN <<TextItem(Slice(text, last_end, placeholder.start))>>
             ELSE <<>>)
            \o <<PlaceholderItem(placeholder, media_dir)>>
            \o RenderFrom(text, Tail(placeholders), media_dir, placeholder.end)

\* 124-162 and 547-586: parse the image placeholders of parsed, slice
\* sliced at their offsets
RenderParsedAndSlice(parsed, sliced, media_dir, images_enabled) ==
    LET placeholders == ParseImagePlaceholders(parsed)
    IN [parsed |-> parsed, sliced |-> sliced,
        items |-> IF placeholders = <<>> \/ ~images_enabled
                  THEN <<TextItem(sliced)>>
                  ELSE RenderFrom(sliced, placeholders, media_dir, 0)]

\* what the functions return for empty input
NothingRendered == [parsed |-> <<>>, sliced |-> <<>>, items |-> <<>>]

\* variant: the placeholders are parsed before the audio icons are put in
RenderContentStaleOffsets(text, media_dir, images_enabled) ==
    IF text = <<>> THEN NothingRendered
    ELSE RenderParsedAndSlice(text, SubstituteAudioIcons(text), media_dir,
                               images_enabled)

\* render_content_with_images (96-162)
RenderContentWithImages(text, media_dir, images_enabled) ==
    IF text = <<>> THEN NothingRendered
    ELSE LET substituted == SubstituteAudioIcons(text)
         IN RenderParsedAndSlice(substituted, substituted, media_dir,
                                  images_enabled)

\* the texts of the styled segments a rendered side consists of, when its
\* styles change at the given place: one or two runs of text
Segments(text, cut) ==
    SelectSeq(<<SubSeq(text, 1, cut), SubSeq(text, cut + 1, Len(text))>>,
              LAMBDA seg : seg # <<>>)

\* where the style of a rendered side changes: nowhere (0), or at the
\* start, behind the "[" or at the end of an audio or image placeholder
CutPoints(text) ==
    LET placeholders == ParseAudioPlaceholders(AudioTokens(text))
                          \o ParseImagePlaceholders(text)
    IN {0} \cup UNION { {placeholders[k].start, placeholders[k].start + 1,
                         placeholders[k].end} : k \in 1..Len(placeholders) }

\* 539-542: substitute_audio_icons on each segment's text
RECURSIVE SubstituteEach(_)
SubstituteEach(segments) ==
    IF segments = <<>> THEN <<>>
    ELSE <<SubstituteAudioIcons(Head(segments))>>
         \o SubstituteEach(Tail(segments))

\* 528-544: the plain text of the styled text after audio substitution
StyledPlainText(segments) ==
    LET plain_text == Concat(segments)
        plain_with_audio == SubstituteAudioIcons(plain_text)
    IN IF plain_with_audio # plain_text
       THEN Concat(SubstituteEach(segments))
       ELSE plain_text

\* variant: the placeholders are parsed from the text before substitution
RenderStyledStaleOffsets(segments, media_dir, images_enabled) ==
    IF segments = <<>> THEN NothingRendered
    ELSE RenderParsedAndSlice(Concat(segments), StyledPlainText(segments),
                               media_dir, images_enabled)

\* render_styled_content_with_images (525-586), from the segments on
RenderStyledWithImages(segments, media_dir, images_enabled) ==
    IF segments = <<>> THEN NothingRendered
    ELSE LET plain_text == StyledPlainText(segments)
         IN RenderParsedAndSlice(plain_text, plain_text, media_dir,
                                  images_enabled)

(* ===================== the texts of the text functions ================ *)
\* the most pieces a card text is put together from
MaxPieces == 3

\* pieces of card texts the audio pattern has to scan: openings, closings
\* and icons that are already there
ScanPieces ==
    { <<"x">>, AudioOpen, <<CloseBracket>>, AudioIcon,
      Audio(<<" ">> \o NameGone) }

\* pieces of card texts with index and filename references
IndexPieces ==
    { <<"x">>, Audio(<<" ", "0">>), Audio(<<"1">>),
      Audio(<<" ">> \o NameGone), Audio(<<" ">>) }

\* pieces of card texts whose references are unusual names
NamePieces ==
    { Audio(<<" ">> \o NameGone), Audio(NameAbsolute),
      Audio(<<" ">> \o NameParent), Audio(NameSuperTwo) }

\* pieces of card texts around image placeholders
ImagePieces ==
    { <<"x">>, ImageOpen, Audio(<<"0">>),
      Image(<<" ">> \o NameA), Image(NameA), Image(<<" ">> \o NameGone) }

\* the concatenations of at most n pieces
TextsOf(pieces, n) ==
    UNION { { Concat(ps) : ps \in [1..k -> pieces] } : k \in 0..n }

\* keys 5 to 9: the placeholders that get a key
KeyedIcons == 5

\* texts with one placeholder more than there are keys
LongTexts ==
    { Concat([k \in 1..(KeyedIcons + 1) |-> piece]) :
        piece \in {Audio(<<"0">>), Audio(NameA) \o <<"x">>} }

Texts ==
    TextsOf(ScanPieces, MaxPieces) \cup TextsOf(IndexPieces, MaxPieces)
      \cup TextsOf(NamePieces, MaxPieces) \cup TextsOf(ImagePieces, MaxPieces)
      \cup LongTexts

\* a text function is about to be applied to one of the texts
InitText ==
    /\ env \in {e \in Environments : e.path # {}}
    /\ backend_checked = FALSE
    /\ audio_backend = "None"
    /\ running_process = None
    /\ playback_thread = None
    /\ playback_stop_event = None
    /\ workers = <<>>
    /\ procs = <<>>
    /\ callers = [c \in SingleCaller |-> NewCaller]
    /\ calls = [play |-> 0, stop |-> 0]
    /\ card_text \in Texts
    /\ outcome = NoOutcome
    /\ renderer = NewRenderer
    /\ fed = <<>>
    /\ screen = NoScreen

\* the playback variables, which no text function reads or writes
playback == <<env, backend_checked, audio_backend, running_process,
              playback_thread, playback_stop_event, workers, procs, callers,
              calls>>

\* the audio_files and media_dir arguments
AudioLists == {<<>>, <<NameA>>, <<NameAbsolute, NameA>>}
MediaDirs == {"None", MediaDir}

\* resolve_audio_files(card_text, audio_files, media_dir)
ResolveAudio ==
    /\ outcome = NoOutcome
    /\ \E audio_files \in AudioLists, media_dir \in MediaDirs :
         LET tokens == AudioTokens(card_text)
             raised == ResolveRaises(tokens, audio_files, media_dir)
         IN outcome' =
              [op |-> "resolve", audio_files |-> audio_files,
               media_dir |-> media_dir, raised |-> raised,
               result |-> IF raised THEN <<>>
                          ELSE ResolveAudioFiles(tokens, audio_files, media_dir)]
    /\ UNCHANGED <<playback, card_text, renderer, fed, screen>>

\* play_audio_by_index (422-435) up to its call of play_audio_files: the
\* file it hands over, if it gets that far
SelectByIndex ==
    /\ outcome = NoOutcome
    /\ \E audio_files \in AudioLists \ {<<>>}, index \in 1..KeyedIcons :
         LET tokens == AudioTokens(card_text)
             raised == ResolveRaises(tokens, audio_files, MediaDir)
             resolved == IF raised THEN <<>>
                         ELSE ResolveAudioFiles(tokens, audio_files, MediaDir)
             zero_index == index - 1
             found == resolved # <<>> /\ zero_index >= 0
                        /\ zero_index < Len(resolved)
         IN outcome' =
              [op |-> "by_index", audio_files |-> audio_files,
               media_dir |-> MediaDir, index |-> index, raised |-> raised,
               result |-> IF found THEN <<resolved[zero_index + 1]>> ELSE <<>>]
    /\ UNCHANGED <<playback, card_text, renderer, fed, screen>>

\* render_content_with_images(card_text, media_dir, images_enabled)
RenderContent ==
    /\ outcome = NoOutcome
    /\ \E media_dir \in MediaDirs, images_enabled \in BOOLEAN :
         LET rendered == RenderContentWithImages(card_text, media_dir,
                                                 images_enabled)
         IN outcome' =
              [op |-> "render", media_dir |-> media_dir,
               images_enabled |-> images_enabled, cut |-> 0,
               parsed |-> rendered.parsed, sliced |-> rendered.sliced,
               items |-> rendered.items]
    /\ UNCHANGED <<playback, card_text, renderer, fed, screen>>

\* render_styled_content_with_images for a side whose text is card_text and
\* whose style changes at cut
RenderStyled ==
    /\ outcome = NoOutcome
    /\ \E media_dir \in MediaDirs, images_enabled \in BOOLEAN,
          cut \in CutPoints(card_text) :
         LET rendered == RenderStyledWithImages(Segments(card_text, cut),
                                                media_dir, images_enabled)
         IN outcome' =
              [op |-> "styled", media_dir |-> media_dir,
               images_enabled |-> images_enabled, cut |-> cut,
               parsed |-> rendered.parsed, sliced |-> rendered.sliced,
               items |-> rendered.items]
    /\ UNCHANGED <<playback, card_text, renderer, fed, screen>>

\* substitute_audio_icons(card_text)
SubstituteIcons ==
    /\ outcome = NoOutcome
    /\ outcome' = [op |-> "substitute",
                   result |-> SubstituteAudioIcons(card_text)]
    /\ UNCHANGED <<playback, card_text, renderer, fed, screen>>

(* ================= the HTML transducer (render/html.py) =============== *)
\* the most parser events fed to one renderer
MaxEvents == 4

\* _HTMLToTextRenderer.BLOCK_TAGS (24) and SKIP_TAGS (27)
BLOCK_TAGS == {"br", "p", "div", "tr", "h1", "h2", "h3", "h4", "h5", "h6"}
SKIP_TAGS == {"style", "script"}
\* the tags of 51 and 112, and the tags of 123
ListTags == {"ul", "ol"}
ClosingBlockTags == BLOCK_TAGS \ {"br"}

\* "  " * n
Indent(n) == [k \in 1..(2 * n) |-> " "]

\* _extract_filename (143-149) for a src without percent escapes: the part
\* behind the last "/"
RECURSIVE ExtractFilename(_)
ExtractFilename(src) ==
    IF \E k \in 1..Len(src) : src[k] = "/"
    THEN ExtractFilename(Tail(src))
    ELSE src

\* handle_starttag (42-84): the renderer after the call
StartTag(r, tag, src) ==
    IF tag \in SKIP_TAGS THEN [r EXCEPT !.skip_depth = @ + 1]
    ELSE IF r.skip_depth > 0 THEN r
    ELSE IF tag \in ListTags THEN [r EXCEPT !.list_depth = @ + 1]
    ELSE IF tag = "li"
    THEN [r EXCEPT !.in_list_item = TRUE,
                   !.chunks = Append(@, <<"\n">>
                       \o Indent(IF r.list_depth > 0 THEN r.list_depth - 1 ELSE 0)
                       \o <<"-", " ">>)]
    ELSE IF tag = "ruby"
    THEN [r EXCEPT !.in_ruby = TRUE, !.ruby_base = <<>>, !.rt_text = <<>>]
    ELSE IF tag = "rt" THEN [r EXCEPT !.in_rt = TRUE]
    ELSE IF tag = "img"
    THEN IF src # <<>>
         THEN [r EXCEPT !.chunks = Append(@, ImageOpen \o <<" ">>
                           \o ExtractFilename(src) \o <<CloseBracket>>)]
         ELSE r
    ELSE IF tag \in BLOCK_TAGS THEN [r EXCEPT !.chunks = Append(@, <<"\n">>)]
    ELSE r

\* 100-109: what the end of a ruby element appends to the chunks
RubyChunks(r) ==
    IF r.ruby_base # <<>> /\ r.rt_text # <<>>
    THEN <<r.ruby_base \o <<"(">> \o r.rt_text \o <<")">>>>
    ELSE IF r.ruby_base # <<>> THEN <<r.ruby_base>>
    ELSE <<>>

\* handle_endtag (86-124): the renderer after the call
EndTag(r, tag) ==
    IF tag \in SKIP_TAGS
    THEN IF r.skip_depth > 0 THEN [r EXCEPT !.skip_depth = @ - 1] ELSE r
    ELSE IF r.skip_depth > 0 THEN r
    ELSE IF tag = "rt" THEN [r EXCEPT !.in_rt = FALSE]
    ELSE IF tag = "ruby"
    THEN [r EXCEPT !.chunks = @ \o RubyChunks(r), !.in_ruby = FALSE,
                   !.ruby_base = <<>>, !.rt_text = <<>>]
    ELSE IF tag \in ListTags
    THEN IF r.list_depth > 0 THEN [r EXCEPT !.list_depth = @ - 1] ELSE r
    ELSE IF tag = "li"
    THEN [r EXCEPT !.in_list_item = FALSE, !.chunks = Append(@, <<"\n">>)]
    ELSE IF tag \in ClosingBlockTags
    THEN [r EXCEPT !.chunks = Append(@, <<"\n">>)]
    ELSE r

\* handle_data (126-141): the renderer after the call
Data(r, data) ==
    IF r.skip_depth > 0 THEN r
    ELSE IF data = <<>> THEN r
    ELSE IF r.in_rt THEN [r EXCEPT !.rt_text = @ \o data]
    ELSE IF r.in_ruby THEN [r EXCEPT !.ruby_base = @ \o data]
    ELSE [r EXCEPT !.chunks = Append(@, data)]

\* get_text (151-153)
GetText(r) == Concat(r.chunks)

\* the tags of the documents fed, and the src of their img tags
FedTags == {"style", "ul", "li", "ruby", "rt", "div", "img"}
VoidTags == {"img"}
FedSrc == <<"d", "/">> \o NameA

\* the events HTMLParser.feed hands to the handlers
StartEvent(tag) ==
    [kind |-> "start", tag |-> tag,
     src |-> IF tag = "img" THEN FedSrc ELSE <<>>]
EndEvent(tag) == [kind |-> "end", tag |-> tag]
\* the k-th event as a text node: its text is the digit k
DataEvent(k) == [kind |-> "data", data |-> <<DigitChar(k)>>]

\* the variables of playback, of the text functions and of the screen
beside_renderer == <<playback, card_text, outcome, screen>>

\* feed: the parser hands over a start tag
HandleStarttag ==
    /\ Len(fed) < MaxEvents
    /\ \E tag \in FedTags :
         /\ renderer' = StartTag(renderer, tag, StartEvent(tag).src)
         /\ fed' = Append(fed, StartEvent(tag))
    /\ UNCHANGED beside_renderer

\* feed: the parser hands over an end tag
HandleEndtag ==
    /\ Len(fed) < MaxEvents
    /\ \E tag \in FedTags \ VoidTags :
         /\ renderer' = EndTag(renderer, tag)
         /\ fed' = Append(fed, EndEvent(tag))
    /\ UNCHANGED beside_renderer

\* feed: the parser hands over a text node
HandleData ==
    /\ Len(fed) < MaxEvents
    /\ renderer' = Data(renderer, DataEvent(Len(fed) + 1).data)
    /\ fed' = Append(fed, DataEvent(Len(fed) + 1))
    /\ UNCHANGED beside_renderer

(* ============ _normalize_whitespace (render/html.py 180-220) ========== *)
\* the line boundaries of str.splitlines() and the other whitespace of
\* str.split() and \s, as far as the texts below contain them
LineBreaks == {"\n", "\r"}
LineSpace == {" ", "\t"}

\* text.splitlines() (188): "\r\n" is one boundary, and a boundary at the
\* end of the text starts no further line
RECURSIVE SplitLinesFrom(_, _)
SplitLinesFrom(text, line) ==
    IF text = <<>> THEN (IF line # <<>> THEN <<line>> ELSE <<>>)
    ELSE IF Head(text) = "\r" /\ Len(text) > 1 /\ text[2] = "\n"
    THEN <<line>> \o SplitLinesFrom(Tail(Tail(text)), <<>>)
    ELSE IF Head(text) \in LineBreaks
    THEN <<line>> \o SplitLinesFrom(Tail(text), <<>>)
    ELSE SplitLinesFrom(Tail(text), Append(line, Head(text)))

SplitLines(text) == SplitLinesFrom(text, <<>>)

\* re.match(r"^(\s*)", line).group(1) (194-195)
RECURSIVE LeadingWhitespace(_)
LeadingWhitespace(line) ==
    IF line # <<>> /\ Head(line) \in LineSpace
    THEN <<Head(line)>> \o LeadingWhitespace(Tail(line))
    ELSE <<>>

\* 198-203: the leading whitespace that is kept
KeptLeading(line) ==
    LET leading == LeadingWhitespace(line)
    IN IF leading # <<>> /\ \A k \in 1..Len(leading) : leading[k] = " "
       THEN Indent(Len(leading) \div 2)
       ELSE <<>>

\* " ".join(line.split()) (205); at_start: no word has been copied yet,
\* gap: whitespace has been passed since the last character copied
RECURSIVE JoinWords(_, _, _)
JoinWords(line, at_start, gap) ==
    IF line = <<>> THEN <<>>
    ELSE IF Head(line) \in LineSpace THEN JoinWords(Tail(line), at_start, TRUE)
    ELSE (IF gap /\ ~at_start THEN <<" ">> ELSE <<>>)
         \o <<Head(line)>> \o JoinWords(Tail(line), FALSE, FALSE)

\* variant of the loop: every empty line is kept
RECURSIVE CleanLinesKeepingEmpty(_, _)
CleanLinesKeepingEmpty(lines, cleaned) ==
    IF lines = <<>> THEN cleaned
    ELSE LET line == Head(lines)
             content == JoinWords(line, TRUE, FALSE)
         IN CleanLinesKeepingEmpty(Tail(lines),
              IF content # <<>> THEN Append(cleaned, KeptLeading(line) \o content)
              ELSE Append(cleaned, <<>>))

\* the loop of 192-210
RECURSIVE CleanLines(_, _)
CleanLines(lines, cleaned) ==
    IF lines = <<>> THEN cleaned
    ELSE LET line == Head(lines)
             content == JoinWords(line, TRUE, FALSE)
         IN CleanLines(Tail(lines),
              IF content # <<>> THEN Append(cleaned, KeptLeading(line) \o content)
              ELSE IF cleaned # <<>> /\ cleaned[Len(cleaned)] # <<>>
              THEN Append(cleaned, <<>>)
              ELSE cleaned)

\* 213-214 and 217-218: drop the empty lines at the end and at the start
RECURSIVE DropEmptyAtEnd(_)
DropEmptyAtEnd(cleaned) ==
    IF cleaned # <<>> /\ cleaned[Len(cleaned)] = <<>>
    THEN DropEmptyAtEnd(SubSeq(cleaned, 1, Len(cleaned) - 1))
    ELSE cleaned

RECURSIVE DropEmptyAtStart(_)
DropEmptyAtStart(cleaned) ==
    IF cleaned # <<>> /\ Head(cleaned) = <<>>
    THEN DropEmptyAtStart(Tail(cleaned))
    ELSE cleaned

\* "\n".join(cleaned) (220)
RECURSIVE JoinLines(_)
JoinLines(cleaned) ==
    IF cleaned = <<>> THEN <<>>
    ELSE IF Len(cleaned) = 1 THEN Head(cleaned)
    ELSE Head(cleaned) \o <<"\n">> \o JoinLines(Tail(cleaned))

\* _normalize_whitespace (180-220)
NormalizeWhitespace(text) ==
    JoinLines(DropEmptyAtStart(DropEmptyAtEnd(CleanLines(SplitLines(text), <<>>))))

\* the most pieces a text to normalize is put together from
MaxLinePieces == 4

\* pieces of the texts the transducer hands to the normalization
LinePieces ==
    { <<"x">>, <<" ">>, <<" ", " ">>, <<"\t">>, <<"\n">>, <<"\r">>,
      <<"x", " ", " ", "x", " ">>, <<"\n", "\n", "\n">> }

LineTexts == TextsOf(LinePieces, MaxLinePieces)

\* the normalization is about to be applied to one of the texts
InitLines ==
    /\ env \in {e \in Environments : e.path # {}}
    /\ backend_checked = FALSE
    /\ audio_backend = "None"
    /\ running_process = None
    /\ playback_thread = None
    /\ playback_stop_event = None
    /\ workers = <<>>
    /\ procs = <<>>
    /\ callers = [c \in SingleCaller |-> NewCaller]
    /\ calls = [play |-> 0, stop |-> 0]
    /\ card_text \in LineTexts
    /\ outcome = NoOutcome
    /\ renderer = NewRenderer
    /\ fed = <<>>
    /\ screen = NoScreen

\* render_html_to_text, 254: _normalize_whitespace(card_text)
NormalizeText ==
    /\ outcome = NoOutcome
    /\ outcome' = [op |-> "normalize", result |-> NormalizeWhitespace(card_text)]
    /\ UNCHANGED <<playback, card_text, renderer, fed, screen>>

(* ============= _adjust_for_contrast (tui/render.py 386-423) =========== *)
\* a colour is what _color_to_rgb makes of the colour string: <<r, g, b>>,
\* or Unparseable when it returns None; "None" is the dropped colour
Unparseable == <<"unparseable">>
Dropped == <<"None">>
\* "#b0b0b0" (416)
FixedGray == <<176, 176, 176>>

\* 0.299 * r + 0.587 * g + 0.114 * b (402), in thousandths
Luminance(colour) == 299 * colour[1] + 587 * colour[2] + 114 * colour[3]

\* the colours of luminance 140 for which the sum of the three doubles at
\* 402 is 139.99999999999997; for every other colour with channels in
\* 0..255 the comparisons of 406 and 411 agree with the exact luminance
RoundedBelow140 ==
    { <<16, 222, 43>>, <<20, 212, 84>>, <<31, 213, 50>>, <<35, 203, 91>>,
      <<46, 204, 57>>, <<61, 195, 64>>, <<72, 196, 30>>, <<76, 186, 71>>,
      <<87, 187, 37>>, <<102, 178, 44>>, <<113, 179, 10>>, <<117, 169, 51>>,
      <<128, 170, 17>>, <<132, 160, 58>>, <<143, 161, 24>>, <<158, 152, 31>>,
      <<173, 143, 38>>, <<184, 144, 4>>, <<199, 135, 11>>, <<214, 126, 18>>,
      <<215, 95, 175>> }

\* variant: a background of luminance 130 is dropped as well
IsLightBackgroundFrom130(colour) == Luminance(colour) >= 130000
\* luminance > 130 (406)
IsLightBackground(colour) == Luminance(colour) > 130000

\* luminance < 140 (411)
IsDarkForeground(colour) ==
    Luminance(colour) < 140000 \/ colour \in RoundedBelow140

\* max(r, g, b) (413)
MaxComponent(colour) ==
    CHOOSE c \in {colour[1], colour[2], colour[3]} :
        \A d \in {colour[1], colour[2], colour[3]} : d <= c

\* min(255, int(channel * scale)) for scale = 190.0 / luminance (417-420):
\* the exact quotient truncated; where the exact quotient is an integer,
\* the product of the doubles can lie just below it
ScaledChannel(channel, colour) ==
    LET quotient == (channel * 190000) \div Luminance(colour)
        exact == (channel * 190000) % Luminance(colour) = 0
        values == IF exact /\ channel > 0 THEN {quotient - 1, quotient}
                  ELSE {quotient}
    IN { IF v > 255 THEN 255 ELSE v : v \in values }

\* _adjust_for_contrast: the values it can return, each with the divisors
\* of the divisions it makes (the one at 417, or none)
AdjustForContrast(colour, is_bg) ==
    IF colour = Unparseable THEN {[result |-> Dropped, divisors |-> {}]}
    ELSE IF is_bg
    THEN {[result |-> IF IsLightBackground(colour) THEN Dropped ELSE colour,
           divisors |-> {}]}
    ELSE IF IsDarkForeground(colour)
    THEN IF MaxComponent(colour) = 0
         THEN {[result |-> FixedGray, divisors |-> {}]}
         ELSE IF Luminance(colour) > 0
         THEN { [result |-> <<r, g, b>>, divisors |-> {Luminance(colour)}] :
                  r \in ScaledChannel(colour[1], colour),
                  g \in ScaledChannel(colour[2], colour),
                  b \in ScaledChannel(colour[3], colour) }
         ELSE {[result |-> colour, divisors |-> {}]}
    ELSE {[result |-> colour, divisors |-> {}]}

\* the channel values of the colours tried: MaxShade + 1 evenly spread ones
MaxShade == 8
Shades == { (255 * k) \div MaxShade : k \in 0..MaxShade }

\* colours at the thresholds: grays of luminance 130, 131, 139, 140 and
\* 141, the darkest blue, navy, and channels beyond 255 from rgb(300, 0, 0)
EdgeColours ==
    { <<130, 130, 130>>, <<131, 131, 131>>, <<139, 139, 139>>,
      <<140, 140, 140>>, <<141, 141, 141>>, <<0, 0, 1>>, <<0, 0, 128>>,
      <<300, 0, 0>> }

Colours ==
    { <<r, g, b>> : r \in Shades, g \in Shades, b \in Shades }
      \cup EdgeColours \cup RoundedBelow140

\* _adjust_for_contrast(color_hex, is_bg=...) for one of the colours
AdjustColour ==
    /\ outcome = NoOutcome
    /\ \E colour \in Colours \cup {Unparseable}, is_bg \in BOOLEAN :
         \E adjusted \in AdjustForContrast(colour, is_bg) :
            outcome' = [op |-> "adjust", colour |-> colour, is_bg |-> is_bg,
                        result |-> adjusted.result,
                        divisors |-> adjusted.divisors]
    /\ UNCHANGED <<playback, card_text, renderer, fed, screen>>

(* ========= cloze spans and whitespace repair (spec.md 4.2) ============ *)
\* the events of one card side
MaxMarkup == 5

RenderModes == {"QUESTION", "ANSWER"}

\* the literal token that stands for a cloze span in QUESTION mode
ClozePlaceholder == <<"[", ".", ".", ".", "]">>

Space == " "

\* a class attribute is given as its whitespace-separated words; a span is a
\* cloze span when one of the words is cloze
ClassTokens(class) == { class[i] : i \in DOMAIN class }
IsClozeClass(class) == "cloze" \in ClassTokens(class)

\* the transducer of one render: the segments emitted (each with the event
\* it comes from and whether a space was put in front of it), the stack of
\* the open elements, and whether a styled or cloze boundary was passed
\* since the last text
NewStyledRenderer(mode) ==
    [mode |-> mode, segments |-> <<>>, stack |-> <<>>, boundary |-> FALSE]

InStack(stack, kind) == \E i \in DOMAIN stack : stack[i] = kind

\* the text of the segments, concatenated
SegmentsText(segments) ==
    Concat([i \in DOMAIN segments |-> segments[i].text])

\* variant: inner content is replaced in every mode
ClozeHiddenInEveryMode(r) == InStack(r.stack, "cloze")
\* QUESTION: inside a cloze span no inner text and no inner tag is emitted
ClozeHidden(r) == r.mode = "QUESTION" /\ InStack(r.stack, "cloze")

\* variant: the space is inserted in front of the first content too
NeedsSpaceAlsoAtStart(r, text) ==
    LET out == SegmentsText(r.segments)
    IN /\ r.boundary
       /\ out # <<>> => out[Len(out)] # Space
       /\ text[1] # Space
\* whitespace repair: a single space at the boundary when the adjacent
\* characters are both non-space characters, never in front of the first
\* content of the output
NeedsSpace(r, text) ==
    LET out == SegmentsText(r.segments)
    IN /\ r.boundary
       /\ out # <<>>
       /\ out[Len(out)] # Space
       /\ text[1] # Space

\* text is emitted as a segment in the style of the open elements
EmitText(r, text, at) ==
    LET repaired == NeedsSpace(r, text)
    IN [r EXCEPT
          !.segments = Append(@,
              [text |-> (IF repaired THEN <<Space>> ELSE <<>>) \o text,
               bold |-> InStack(r.stack, "b"),
               is_cloze |-> InStack(r.stack, "cloze"),
               from |-> at,
               repaired |-> repaired]),
          !.boundary = FALSE]

\* what a start tag opens: a cloze span, a span without meaning, or <b>
OpenedKind(tag, class) ==
    IF tag = "span" THEN (IF IsClozeClass(class) THEN "cloze" ELSE "span")
    ELSE tag

\* a start tag: the element is pushed; a cloze span in QUESTION mode emits
\* the placeholder; a styled or cloze element is a boundary
StyledStart(r, tag, class, at) ==
    LET kind == OpenedKind(tag, class)
        pushed == [r EXCEPT !.stack = Append(@, kind)]
    IN IF ClozeHidden(r) \/ kind = "span" THEN pushed
       ELSE IF kind = "cloze" /\ r.mode = "QUESTION"
       THEN EmitText([pushed EXCEPT !.boundary = TRUE], ClozePlaceholder, at)
       ELSE [pushed EXCEPT !.boundary = TRUE]

\* an end tag closes the innermost open element
StyledEnd(r) ==
    LET kind == r.stack[Len(r.stack)]
        popped == [r EXCEPT !.stack = SubSeq(@, 1, Len(@) - 1)]
    IN IF ClozeHidden(popped) \/ kind = "span" THEN popped
       ELSE [popped EXCEPT !.boundary = TRUE]

\* a text node
StyledData(r, text, at) ==
    IF ClozeHidden(r) \/ text = <<>> THEN r ELSE EmitText(r, text, at)

\* the class attributes of the spans fed
FedClasses ==
    { <<"cloze">>, <<"card", "cloze">>, <<"cloze-inactive">>, <<>> }

\* the end tag of an open element
ClosingTag(kind) == IF kind = "b" THEN "b" ELSE "span"

\* feed: a start tag <span class=...> or <b>
HandleStyledStart ==
    /\ Len(fed) < MaxMarkup
    /\ \E tag \in {"span", "b"} :
         \E class \in IF tag = "span" THEN FedClasses ELSE {<<>>} :
           /\ renderer' = StyledStart(renderer, tag, class, Len(fed) + 1)
           /\ fed' = Append(fed, [kind |-> "start", tag |-> tag,
                                  class |-> class])
    /\ UNCHANGED beside_renderer

\* feed: the end tag of the innermost open element
HandleStyledEnd ==
    /\ Len(fed) < MaxMarkup
    /\ renderer.stack # <<>>
    /\ renderer' = StyledEnd(renderer)
    /\ fed' = Append(fed, EndEvent(ClosingTag(renderer.stack[Len(renderer.stack)])))
    /\ UNCHANGED beside_renderer

\* feed: a text node, a space or the digit of its position
HandleStyledData ==
    /\ Len(fed) < MaxMarkup
    /\ \E data \in {<<Space>>, DataEvent(Len(fed) + 1).data} :
         /\ renderer' = StyledData(renderer, data, Len(fed) + 1)
         /\ fed' = Append(fed, [kind |-> "data", data |-> data])
    /\ UNCHANGED beside_renderer

(* ============ the review screen (tui/screens/review.py) =============== *)
\* the cards due in the deck, and the key actions handled by one screen
MaxCards == 2
MaxKeys == 5

\* Rating.AGAIN, HARD, GOOD, EASY as int(rating)
Ratings == 1..4
Good == 3

\* SessionStats() (app.py 21-29)
NewStats ==
    [reviewed |-> 0, again_count |-> 0, hard_count |-> 0, good_count |-> 0,
     easy_count |-> 0]

\* SessionStats.record_answer (app.py 31-41)
RecordAnswer(stats, rating) ==
    LET counted == [stats EXCEPT !.reviewed = @ + 1]
    IN IF rating = 1 THEN [counted EXCEPT !.again_count = @ + 1]
       ELSE IF rating = 2 THEN [counted EXCEPT !.hard_count = @ + 1]
       ELSE IF rating = 3 THEN [counted EXCEPT !.good_count = @ + 1]
       ELSE IF rating = 4 THEN [counted EXCEPT !.easy_count = @ + 1]
       ELSE counted

\* the ReviewSession as the screen sees it: the cards of the deck are
\* 1..MaxCards and come in this order, answered is how many of them have
\* been answered and not undone
SessionNextCard(answered) == IF answered < MaxCards THEN answered + 1 ELSE None
SessionCanUndo(answered) == answered > 0
SessionUndo(answered) == answered

\* ReviewScreen.__init__ (43-48) on an app whose stats were reset
\* (deck_picker.py 198): which screen shows (phase), the fields of the
\* screen, the session's state, the app's stats, and for the record the
\* key handled last and the calls of session.answer
NewScreen ==
    [mounted |-> TRUE, phase |-> "new", has_session |-> FALSE,
     current_card |-> None, answer_revealed |-> FALSE, answered |-> 0,
     stats |-> NewStats, key |-> "none", keys |-> 0, answer_calls |-> <<>>]

\* _load_next_card (117-132)
LoadNextCard(s) ==
    IF ~s.has_session THEN s
    ELSE LET card == SessionNextCard(s.answered)
         IN [s EXCEPT !.current_card = card, !.answer_revealed = FALSE,
                      !.phase = IF card = None THEN "done" ELSE @]

\* _rate (200-211); raises: session.answer raises
Rate(s, rating, raises) ==
    IF ~s.has_session \/ s.current_card = None THEN s
    ELSE LET called == [s EXCEPT !.answer_calls =
                            Append(@, [rating |-> rating, card |-> s.current_card])]
         IN IF raises THEN called
            ELSE LoadNextCard([called EXCEPT
                     !.answered = @ + 1,
                     !.stats = RecordAnswer(@, rating)])

\* _reveal_answer (172-178)
RevealAnswer(s) ==
    IF s.current_card = None THEN s ELSE [s EXCEPT !.answer_revealed = TRUE]

\* variant: the rating keys rate whether or not the answer is revealed
RateKeyUnrevealed(s, rating, raises) == Rate(s, rating, raises)
\* action_rate_again, _hard, _good, _easy (180-198)
RateKey(s, rating, raises) ==
    IF s.answer_revealed THEN Rate(s, rating, raises) ELSE s

\* action_undo (213-231); session.undo raises UndoError when nothing was
\* answered
UndoKey(s) ==
    IF ~s.has_session THEN s
    ELSE IF ~SessionCanUndo(s.answered) THEN s
    ELSE [s EXCEPT !.current_card = SessionUndo(s.answered),
                   !.answered = @ - 1,
                   !.answer_revealed = TRUE,
                   !.stats.reviewed = IF @ > 0 THEN @ - 1 ELSE @]

\* the screen after a key, with the key on record
Keyed(s, key) == [s EXCEPT !.key = key, !.keys = @ + 1]

\* the variables beside the screen
beside_screen == <<playback, card_text, outcome, renderer, fed>>

\* a key binding of the review screen can fire
CanPress == screen.phase = "review" /\ screen.keys < MaxKeys

\* on_mount (83-99): the session is made (or the screen is popped when the
\* collection is not open or the deck is not found), the first card loaded
Mount ==
    /\ screen.phase = "new"
    /\ \E opened \in BOOLEAN :
         screen' = IF opened
                   THEN LoadNextCard([screen EXCEPT !.has_session = TRUE,
                                                    !.phase = "review"])
                   ELSE [screen EXCEPT !.phase = "closed"]
    /\ UNCHANGED beside_screen

\* action_space_action (160-165)
SpaceAction ==
    /\ CanPress
    /\ \E raises \in BOOLEAN :
         screen' = Keyed(IF ~screen.answer_revealed THEN RevealAnswer(screen)
                         ELSE Rate(screen, Good, raises), "space")
    /\ UNCHANGED beside_screen

\* action_reveal (167-170)
RevealAction ==
    /\ CanPress
    /\ screen' = Keyed(IF ~screen.answer_revealed THEN RevealAnswer(screen)
                       ELSE screen, "enter")
    /\ UNCHANGED beside_screen

\* action_rate_again .. action_rate_easy (180-198)
RateAction ==
    /\ CanPress
    /\ \E rating \in Ratings, raises \in BOOLEAN :
         screen' = Keyed(RateKey(screen, rating, raises), "rate")
    /\ UNCHANGED beside_screen

\* action_undo (213-231)
UndoAction ==
    /\ CanPress
    /\ screen' = Keyed(UndoKey(screen), "undo")
    /\ UNCHANGED beside_screen

\* action_back_to_picker (233-235): the screen is popped
BackToPicker ==
    /\ screen.phase = "review"
    /\ screen' = [screen EXCEPT !.phase = "closed"]
    /\ UNCHANGED beside_screen

\* DoneScreen.action_back_to_picker (done.py 74-83): the stats are reset
DoneBackToPicker ==
    /\ screen.phase = "done"
    /\ screen' = [screen EXCEPT !.phase = "closed", !.stats = NewStats]
    /\ UNCHANGED beside_screen

(* ============================ behaviours ============================== *)
CallerStep(c) ==
    \/ StopAudio(c)
    \/ StopTerminate(c)
    \/ StopFinal(c)
    \/ PlayAudioFiles(c)
    \/ PlayRegister(c)
    \/ PlayStart(c)

WorkerStep(w) ==
    \/ WorkerLoop(w)
    \/ WorkerLaunch(w)
    \/ WorkerWait(w)
    \/ WorkerFinal(w)

Next ==
    \/ \E c \in Callers : CallerStep(c)
    \/ \E w \in WorkerIds : WorkerStep(w)
    \/ \E p \in ProcIds : ProcExit(p)

\* the same, with calls of play_audio_by_index
NextIndex ==
    \/ Next
    \/ \E c \in Callers : PlayAudioByIndex(c)

\* concurrent callers of play_audio_files and stop_audio
Spec == Init /\ [][Next]_vars

\* one caller of play_audio_files and stop_audio
SpecSingle == InitSingle /\ [][Next]_vars

\* one caller of play_audio_files, play_audio_by_index and stop_audio
SpecIndex == InitSingle /\ [][NextIndex]_vars

\* the text functions, each applied once to a text
NextText ==
    \/ SubstituteIcons
    \/ ResolveAudio
    \/ SelectByIndex
    \/ RenderContent
    \/ RenderStyled

SpecText == InitText /\ [][NextText]_vars

\* one renderer is fed the events of one document
NextHtml ==
    \/ HandleStarttag
    \/ HandleEndtag
    \/ HandleData

\* a new renderer, in the environment of the text functions
InitHtml == InitSingle /\ env.path # {}

SpecHtml == InitHtml /\ [][NextHtml]_vars

\* the normalization of one text
NextLines == NormalizeText

SpecLines == InitLines /\ [][NextLines]_vars

\* the adjustment of one colour
NextColour == AdjustColour

SpecColour == InitHtml /\ [][NextColour]_vars

\* one review screen from its construction on
InitReview ==
    /\ env \in {e \in Environments : e.path # {}}
    /\ backend_checked = FALSE
    /\ audio_backend = "None"
    /\ running_process = None
    /\ playback_thread = None
    /\ playback_stop_event = None
    /\ workers = <<>>
    /\ procs = <<>>
    /\ callers = [c \in SingleCaller |-> NewCaller]
    /\ calls = [play |-> 0, stop |-> 0]
    /\ card_text = <<>>
    /\ outcome = NoOutcome
    /\ renderer = NewRenderer
    /\ fed = <<>>
    /\ screen = NewScreen

NextReview ==
    \/ Mount
    \/ SpaceAction
    \/ RevealAction
    \/ RateAction
    \/ UndoAction
    \/ BackToPicker
    \/ DoneBackToPicker

SpecReview == InitReview /\ [][NextReview]_vars

\* one card side rendered to styled segments in either mode
InitStyled ==
    /\ env \in {e \in Environments : e.path # {}}
    /\ backend_checked = FALSE
    /\ audio_backend = "None"
    /\ running_process = None
    /\ playback_thread = None
    /\ playback_stop_event = None
    /\ workers = <<>>
    /\ procs = <<>>
    /\ callers = [c \in SingleCaller |-> NewCaller]
    /\ calls = [play |-> 0, stop |-> 0]
    /\ card_text = <<>>
    /\ outcome = NoOutcome
    /\ renderer \in {NewStyledRenderer(mode) : mode \in RenderModes}
    /\ fed = <<>>
    /\ screen = NoScreen

NextStyled ==
    \/ HandleStyledStart
    \/ HandleStyledEnd
    \/ HandleStyledData

SpecStyled == InitStyled /\ [][NextStyled]_vars

(* ============================= fairness =============================== *)
\* the longest list a worker can get, and so the most processes ever launched
LongestList ==
    CHOOSE l \in PlayLists : \A m \in PlayLists : Len(m) <= Len(l)
MaxProcs == MaxPlays * Len(LongestList)

\* a call that has begun runs to its return; every started worker keeps
\* running; every launched player exits
Fairness ==
    /\ \A c \in ConcurrentCallers :
         WF_vars(c \in Callers /\ (StopTerminate(c) \/ StopFinal(c)
                                   \/ PlayRegister(c) \/ PlayStart(c)))
    /\ \A w \in 1..MaxPlays : WF_vars(w \in WorkerIds /\ WorkerStep(w))
    /\ \A p \in 1..MaxProcs : WF_vars(p \in ProcIds /\ ProcExit(p))

FairSpec == Spec /\ Fairness

FairSpecSingle == SpecSingle /\ Fairness

(* ============================== properties ============================ *)
TypeOK ==
    /\ running_process \in {None} \cup ProcIds
    /\ playback_thread \in {None} \cup WorkerIds
    /\ playback_stop_event = playback_thread

ProcsOf(w) == {p \in ProcIds : procs[p].owner = w}
Running == {p \in ProcIds : procs[p].state = "running"}
Idle ==
    running_process = None /\ playback_thread = None /\ playback_stop_event = None

\* the step of worker w is its final cleanup
IsWorkerFinal(w) == workers[w].pc = "final" /\ workers'[w].pc = "done"

\* C1: the final cleanup of a worker that is not the registered worker
\* leaves _running_process, _playback_thread and _playback_stop_event as
\* they are, so a newer worker's thread and stop event stay registered.
C1_StaleWorkerCleanupIsNoOp ==
    [][\A w \in WorkerIds :
         (IsWorkerFinal(w) /\ playback_thread # w) => session' = session]_vars

\* a superseded worker reaches its final cleanup while a newer worker and
\* that worker's stop event are registered
C1_Witness ==
    \E w \in WorkerIds :
        /\ workers[w].pc = "final"
        /\ playback_thread \notin {None, w}
        /\ playback_stop_event = playback_thread
        /\ IsAlive(playback_thread)

\* C2: every launch of a player process is made by the registered worker
\* while its own stop event is not set.
C2_NoLaunchOnceStoppedOrSuperseded ==
    [][Len(procs') > Len(procs) =>
         LET w == procs'[Len(procs')].owner
         IN ~workers[w].stop /\ playback_thread = w]_vars

\* after its first clip a worker has passed the loop-entry check and is
\* about to take the lock when its stop event gets set
C2_Witness ==
    \E w \in WorkerIds :
        /\ workers[w].pc = "launch"
        /\ workers[w].i = 2
        /\ workers[w].stop
        /\ Cardinality(ProcsOf(w)) = 1

\* the workers whose play_audio_files call has returned
ReturnedWorkers ==
    {w \in WorkerIds : \A c \in Callers : callers[c].mine # w}

\* C3: with one caller, once the play_audio_files call that created a worker
\* has returned, no process of an earlier request is running (so none is
\* launched either: a launch leaves a running process).
C3_PlaySupersedesEarlierRequests ==
    \A w \in ReturnedWorkers :
        \A p \in ProcIds : procs[p].owner < w => procs[p].state = "exited"

\* a second request has returned while the worker of the first, whose
\* player was terminated, is still alive
C3_Witness ==
    \E w \in ReturnedWorkers : \E v \in WorkerIds :
        /\ v < w
        /\ IsAlive(v)
        /\ \E p \in ProcsOf(v) : procs[p].state = "exited" /\ procs[p].rc < 0

\* C4: at most one player process launched by the controller is running.
C4_AtMostOneProcessRunning == Cardinality(Running) <= 1

\* the existing entries of full, in the order of full
IsExistingInOrder(sub, full) ==
    LET idx == {k \in 1..Len(full) : Exists(full[k])}
    IN /\ Len(sub) = Cardinality(idx)
       /\ \A k \in idx : sub[Cardinality({j \in idx : j <= k})] = full[k]

\* the k-th process of a running worker plays its k-th file, and every
\* process but the last has exited with status 0
LaunchedInOrder(w) ==
    \A p \in ProcsOf(w) :
        /\ procs[p].i = Cardinality({q \in ProcsOf(w) : q <= p})
        /\ procs[p].file = workers[w].files[procs[p].i]
        /\ \A q \in ProcsOf(w) :
             p < q => procs[p].state = "exited" /\ procs[p].rc = 0

\* C5: a worker launches the existing files of its request in list order,
\* the next one only after the previous process exited with status 0, and
\* none after a launch failure or a reported non-zero exit.
C5_ClipsInOrderUntilFailure ==
    /\ [](\A c \in Callers :
            callers[c].pc = "play_start" =>
              IsExistingInOrder(workers[callers[c].mine].files, callers[c].files))
    /\ [](\A w \in WorkerIds : IsAlive(w) => LaunchedInOrder(w))
    /\ [][\A w \in WorkerIds :
            workers[w].brk =>
              \A p \in 1..Len(procs') : p > Len(procs) => procs'[p].owner # w]_vars

\* a worker plays its second clip after the first exited with status 0
C5_Witness ==
    \E w \in WorkerIds :
        /\ workers[w].pc = "wait"
        /\ workers[w].i = 2
        /\ procs[workers[w].proc].file = JoinPath(MediaDir, NameB)
        /\ \E p \in ProcsOf(w) :
             procs[p].i = 1 /\ procs[p].rc = 0 /\ procs[p].state = "exited"

\* C6: the exit status of a process goes to the error callback only when it
\* is non-zero, and never when stop_audio() ended the process.
C6_StoppedProcessIsNotReported ==
    \A p \in ProcIds :
        procs[p].reported =>
          procs[p].rc # 0 /\ procs[p].rc \notin TerminateCodes \cup KillCodes

\* the step of caller c is the final block of stop_audio()
IsStopFinal(c) == callers[c].pc = "stop_final" /\ callers'[c].pc # "stop_final"

\* C7: the final block of stop_audio() changes a session field only when
\* the field still holds what the call captured in its snapshot.
C7_StopClearsOnlyItsSnapshot ==
    [][\A c \in Callers :
         IsStopFinal(c) =>
           /\ running_process' # running_process =>
                running_process = callers[c].proc
           /\ playback_thread' # playback_thread =>
                playback_thread = callers[c].thread
           /\ playback_stop_event' # playback_stop_event =>
                playback_thread = callers[c].thread]_vars

\* the stop_audio() inside a play_audio_files call has returned, and the
\* worker, stop event and process that another call registered after its
\* snapshot are still registered
C7_Witness ==
    \E c \in Callers :
        /\ callers[c].pc = "play_register"
        /\ playback_thread # None
        /\ playback_thread # callers[c].thread
        /\ playback_stop_event = playback_thread
        /\ running_process # None
        /\ running_process # callers[c].proc

\* C8: when calls run to their return, workers keep running and players
\* exit, the controller ends up idle and stays idle.
C8_EventuallyIdleForever == <>[]Idle

\* all calls have been made and have returned, players were launched, and
\* the controller is idle
C8_Witness ==
    /\ Idle
    /\ calls.play = MaxPlays
    /\ \A c \in Callers : callers[c].pc = "idle"
    /\ \A w \in WorkerIds : ~IsAlive(w)
    /\ Len(procs) >= 2

\* C9: no call and no worker ends with an exception of the error callback.
C9_CallbackExceptionNeverEscapes ==
    /\ \A c \in Callers : callers[c].res # "raised"
    /\ \A w \in WorkerIds : ~workers[w].raised

\* no binary of the platform's candidates is on the PATH
NoBackend == FirstAvailable(BackendCandidates(env.platform), env.path) = "None"

\* C10: without a backend a play_audio_files call with files returns False
\* at line 291 after the callback, if there is one, received the platform
\* message exactly once; no worker is registered, no process is launched and
\* the session fields are what they were.
C10_NoBackendReportsAndReturnsFalse ==
    /\ [](NoBackend =>
            /\ workers = <<>> /\ procs = <<>> /\ Idle
            /\ \A c \in Callers :
                 callers[c].op = "play" =>
                   /\ callers[c].pc = "idle"
                   /\ callers[c].line \in {286, 291}
                   /\ callers[c].line = 291 =>
                        /\ callers[c].res = "False"
                        /\ callers[c].errs =
                             IF env.on_error = "none" THEN <<>>
                             ELSE <<UnavailableMessage("None", env.platform)>>
                        /\ \A k \in 1..Len(callers[c].errs) :
                             callers[c].errs[k] # "")
    /\ [][\A c \in Callers :
            (callers'[c].line = 291 /\ callers'[c] # callers[c]) =>
              /\ session' = session
              /\ workers' = workers
              /\ procs' = procs]_vars

\* on linux without ffplay a call has returned False and the callback has
\* the install hint
C10_Witness ==
    \E c \in Callers :
        /\ callers[c].line = 291
        /\ callers[c].res = "False"
        /\ callers[c].errs =
             <<"No supported audio player found (install ffmpeg for ffplay)">>

\* the step is caller c returning, or raising, at one of the given lines
ReturnsAt(c, lines) ==
    /\ callers'[c] # callers[c]
    /\ callers'[c].pc = "idle"
    /\ callers'[c].line \in lines

\* the step leaves the playback session, the workers and the players alone
PlaybackUntouched ==
    /\ session' = session
    /\ workers' = workers
    /\ procs' = procs

\* C11: play_audio_files([]) returns True at line 286 and is a no-op: a call
\* with an empty list never enters stop_audio(), and the returning step
\* changes no session field, no stop event and no process.
C11_EmptyListIsNoOp ==
    /\ [](\A c \in Callers :
            /\ (callers[c].op = "play" /\ callers[c].pc # "idle")
                  => callers[c].files # <<>>
            /\ callers[c].line = 286
                  => callers[c].res = "True" /\ callers[c].errs = <<>>)
    /\ [][\A c \in Callers : ReturnsAt(c, {286}) => PlaybackUntouched]_vars

\* the single caller's latest call returned at line 286 while the worker of
\* its earlier request is alive, not stopped, and its player is running
C11_Witness ==
    \E c \in Callers :
        /\ callers[c].line = 286
        /\ playback_thread # None
        /\ IsAlive(playback_thread)
        /\ ~workers[playback_thread].stop
        /\ running_process # None
        /\ procs[running_process].state = "running"

\* the lines at which play_audio_by_index ends after a failed lookup
ByIndexFailureLines == {425, 426, 432, 433}

\* C12: a play_audio_by_index call whose resolution list is empty or whose
\* index is out of range hands one message to the callback, returns False,
\* and its step leaves the session, the workers and the players alone.
C12_ByIndexFailureReportsOnce ==
    /\ [](\A c \in Callers :
            (callers[c].op = "by_index" /\ callers[c].line \in ByIndexFailureLines)
              => /\ callers[c].res = "False"
                 /\ env.on_error # "none" => Len(callers[c].errs) = 1)
    /\ [][\A c \in Callers :
            ReturnsAt(c, ByIndexFailureLines) => PlaybackUntouched]_vars

\* C12 without its return value: the callback receives one message and
\* playback is left alone, whether or not the callback raises
C12_ByIndexFailureLeavesPlayback ==
    /\ [](\A c \in Callers :
            (callers[c].op = "by_index" /\ callers[c].line \in ByIndexFailureLines)
              => (env.on_error # "none" => Len(callers[c].errs) = 1))
    /\ [][\A c \in Callers :
            ReturnsAt(c, ByIndexFailureLines) => PlaybackUntouched]_vars

(* ------------------- properties of the text functions ----------------- *)
\* the number of places at which the icon stands in a string
CountIcons(s) ==
    Cardinality({k \in 1..Len(s) : HasPrefix(SubSeq(s, k, Len(s)), AudioIcon)})

\* the icon of the N-th placeholder as the text is to show it
Label(n) ==
    IF n <= KeyedIcons THEN AudioIcon \o <<"[", DigitChar(n + 4), "]">>
    ELSE AudioIcon

\* the text with its placeholders, found by their offsets, replaced in
\* order by their labels, starting with the n-th
RECURSIVE Labelled(_, _, _, _)
Labelled(text, placeholders, n, last_end) ==
    IF placeholders = <<>> THEN Slice(text, last_end, Len(text))
    ELSE Slice(text, last_end, Head(placeholders).start)
         \o Label(n)
         \o Labelled(text, Tail(placeholders), n + 1, Head(placeholders).end)

\* the audio placeholders of the card text
CardPlaceholders == ParseAudioPlaceholders(AudioTokens(card_text))

\* C17 as stated: the N-th placeholder is replaced by the icon with [N+4]
\* up to the fifth and by the bare icon after it, the text outside the
\* placeholders is unchanged, and the result has as many icons as the text
\* has placeholders.
C17_IconsCountEqualsPlaceholders ==
    outcome.op = "substitute" =>
        /\ outcome.result = Labelled(card_text, CardPlaceholders, 1, 0)
        /\ CountIcons(outcome.result) = Len(CardPlaceholders)

\* C17, amended: the same replacement, and as many icons as placeholders for
\* a text that contains no icon itself.
C17_PlaceholdersBecomeNumberedIcons ==
    outcome.op = "substitute" =>
        /\ outcome.result = Labelled(card_text, CardPlaceholders, 1, 0)
        /\ CountIcons(card_text) = 0
             => CountIcons(outcome.result) = Len(CardPlaceholders)

\* six placeholders with text between them: keys 5 to 9, then a bare icon
C17_Witness ==
    /\ outcome.op = "substitute"
    /\ Len(CardPlaceholders) = KeyedIcons + 1
    /\ \E k \in 1..Len(card_text) : card_text[k] = "x"
    /\ CountIcons(outcome.result) = KeyedIcons + 1
    /\ HasPrefix(outcome.result, AudioIcon \o <<"[", "5", "]">>)
    /\ Slice(outcome.result, Len(outcome.result) - Len(AudioIcon) - 1,
             Len(outcome.result)) = AudioIcon \o <<"x">>

\* a value made of decimal digits only
AllDigits(value) ==
    value # <<>> /\ \A k \in 1..Len(value) : value[k] \in Digits

\* what a placeholder value refers to: nothing (<<>>) or one path
Target(value, audio_files, media_dir) ==
    IF AllDigits(value)
    THEN IF IntOf(value) < Len(audio_files)
         THEN <<JoinPath(media_dir, audio_files[IntOf(value) + 1])>>
         ELSE <<>>
    ELSE <<JoinPath(media_dir, value)>>

\* the placeholders, by position, whose target exists on disk
Playable(placeholders, audio_files, media_dir) ==
    {k \in 1..Len(placeholders) :
        LET t == Target(placeholders[k].value, audio_files, media_dir)
        IN t # <<>> /\ Exists(t[1])}

\* C13: when play_audio_by_index(index = k) gets to play a file, the text
\* has a k-th audio placeholder (the one shown with key k+4) and the file is
\* what that placeholder refers to.
C13_DisplayIndexMatchesIconNumbering ==
    (outcome.op = "by_index" /\ outcome.result # <<>>) =>
        /\ outcome.index <= Len(CardPlaceholders)
        /\ <<outcome.result[1]>> =
             Target(CardPlaceholders[outcome.index].value,
                    outcome.audio_files, outcome.media_dir)

\* C14: resolve_audio_files does not raise and returns, in order, the
\* targets that exist: audio_files[i] for an all-digit value i in range, the
\* value itself as a name otherwise; nothing when media_dir is None.
C14_ResolveIsExistingTargetsInOrder ==
    outcome.op = "resolve" =>
        /\ ~outcome.raised
        /\ outcome.media_dir = "None" => outcome.result = <<>>
        /\ (outcome.media_dir # "None" /\ ~outcome.raised) =>
             LET keep == Playable(CardPlaceholders, outcome.audio_files,
                                  outcome.media_dir)
             IN /\ Len(outcome.result) = Cardinality(keep)
                /\ \A k \in keep :
                     <<outcome.result[Cardinality({j \in keep : j <= k})]>> =
                       Target(CardPlaceholders[k].value, outcome.audio_files,
                              outcome.media_dir)

\* C15: a placeholder whose value is empty after trimming contributes no
\* path: the result has no more paths than the text has placeholders with
\* a value, and the media directory itself is not among them.
C15_EmptyReferenceIsSkipped ==
    (outcome.op = "resolve" /\ outcome.media_dir # "None") =>
        /\ Len(outcome.result) <=
             Cardinality({k \in 1..Len(CardPlaceholders) :
                            CardPlaceholders[k].value # <<>>})
        /\ \A k \in 1..Len(outcome.result) :
             outcome.result[k] # JoinPath(outcome.media_dir, <<>>)

\* a relative name with a ".." component
HasParentStep(name) ==
    \E k \in 1..(Len(name) - 1) :
        /\ SubSeq(name, k, k + 1) = <<".", ".">>
        /\ (k = 1 \/ name[k - 1] = "/")
        /\ (k + 1 = Len(name) \/ name[k + 2] = "/")

\* the path is media_dir or lies below it
LocatedUnder(path, media_dir) ==
    path[1] = media_dir /\ ~HasParentStep(path[2])

\* C16: every path resolve_audio_files returns lies under media_dir.
C16_ResolvedPathsAreUnderMediaDir ==
    (outcome.op = "resolve" /\ outcome.media_dir # "None") =>
        \A k \in 1..Len(outcome.result) :
            LocatedUnder(outcome.result[k], outcome.media_dir)

\* the style changes strictly inside an audio placeholder of the side
CutInsideAudioPlaceholder(cut) ==
    \E k \in 1..Len(CardPlaceholders) :
        CardPlaceholders[k].start < cut /\ cut < CardPlaceholders[k].end

\* C18: render_styled_content_with_images numbers the audio keys per card
\* side: however the side is split into styled segments (between its audio
\* placeholders), the k-th audio placeholder of the whole side is shown with
\* key k+4 for k in 1..5 and as a bare icon beyond the fifth.
C18_StyledKeysNumberedPerSide ==
    (outcome.op = "styled" /\ ~CutInsideAudioPlaceholder(outcome.cut))
        => outcome.sliced = Labelled(card_text, CardPlaceholders, 1, 0)

\* the same numbering when the whole side is one segment
C18_OneSegmentNumberedPerSide ==
    (outcome.op = "styled" /\ outcome.cut = 0)
        => outcome.sliced = Labelled(card_text, CardPlaceholders, 1, 0)


\* the image placeholders of the string the function slices
SlicedPlaceholders == ParseImagePlaceholders(outcome.sliced)

\* the stretch of the sliced string in front of its k-th image placeholder,
\* and the stretch behind the last one
GapBefore(k) ==
    Slice(outcome.sliced,
          IF k = 1 THEN 0 ELSE SlicedPlaceholders[k - 1].end,
          SlicedPlaceholders[k].start)
GapAfterLast ==
    Slice(outcome.sliced, SlicedPlaceholders[Len(SlicedPlaceholders)].end,
          Len(outcome.sliced))

\* where the item of the k-th placeholder is, when every non-empty stretch
\* in front of it has one item and every placeholder in front of it has one
ItemOf(k) == k + Cardinality({j \in 1..k : GapBefore(j) # <<>>})

\* the item is the marker of media_dir/filename when that file exists, and
\* a text item otherwise
IsItemOfPlaceholder(item, placeholder, media_dir) ==
    IF media_dir # "None" /\ Exists(JoinPath(media_dir, placeholder.filename))
    THEN item = MarkerItem(JoinPath(media_dir, placeholder.filename))
    ELSE item.kind = "text"

\* the case of C19: images enabled, image placeholders in the text
RenderedWithPlaceholders ==
    /\ outcome.op \in {"render", "styled"}
    /\ outcome.images_enabled
    /\ SlicedPlaceholders # <<>>

\* C19: with images enabled and image placeholders in the text, the list
\* returned by render_content_with_images and
\* render_styled_content_with_images partitions the audio-substituted text
\* in order: every non-empty stretch before, between and after placeholders
\* is one item with its characters intact, each placeholder yields exactly
\* one item (an ImageMarker when media_dir/filename exists, a text item
\* otherwise), and the offsets used for slicing were parsed from exactly
\* the string that is sliced.
C19_ItemsPartitionSlicedText ==
    RenderedWithPlaceholders =>
        LET n == Len(SlicedPlaceholders)
            items == outcome.items
        IN /\ outcome.parsed = outcome.sliced
           /\ outcome.op = "render"
                => outcome.sliced = SubstituteAudioIcons(card_text)
           /\ Len(items) = ItemOf(n) + (IF GapAfterLast # <<>> THEN 1 ELSE 0)
           /\ \A k \in 1..n :
                /\ IsItemOfPlaceholder(items[ItemOf(k)], SlicedPlaceholders[k],
                                       outcome.media_dir)
                /\ GapBefore(k) # <<>>
                     => items[ItemOf(k) - 1] = TextItem(GapBefore(k))
           /\ GapAfterLast # <<>> => items[Len(items)] = TextItem(GapAfterLast)

\* an audio placeholder, an image whose file exists and a last stretch of
\* text: the icon with its key, the marker, the text
C19_Witness ==
    /\ RenderedWithPlaceholders
    /\ outcome.op = "render"
    /\ outcome.sliced # card_text
    /\ Len(outcome.items) = 3
    /\ outcome.items[1] = TextItem(AudioIcon \o <<"[", "5", "]">>)
    /\ outcome.items[2] = MarkerItem(JoinPath(MediaDir, NameA))
    /\ outcome.items[3] = TextItem(<<"x">>)


\* no marker can be made for the placeholder: media_dir is None or the file
\* does not exist
Unresolvable(placeholder, media_dir) ==
    media_dir = "None" \/ ~Exists(JoinPath(media_dir, placeholder.filename))

\* the characters of all text items, in order
RECURSIVE ItemsText(_)
ItemsText(items) ==
    IF items = <<>> THEN <<>>
    ELSE (IF Head(items).kind = "text" THEN Head(items).chars ELSE <<>>)
         \o ItemsText(Tail(items))

\* C20: when an image placeholder cannot be turned into a marker (media_dir
\* is None, or the file does not exist), its output item is the literal
\* placeholder text, the substring text[start:end] it was parsed from, so
\* that with no resolvable image the concatenation of all output items is
\* the audio-substituted input text.
C20_FallbackIsLiteralPlaceholder ==
    RenderedWithPlaceholders =>
        /\ \A k \in 1..Len(SlicedPlaceholders) :
             Unresolvable(SlicedPlaceholders[k], outcome.media_dir)
               => outcome.items[ItemOf(k)] =
                    TextItem(Slice(outcome.sliced, SlicedPlaceholders[k].start,
                                   SlicedPlaceholders[k].end))
        /\ (\A k \in 1..Len(SlicedPlaceholders) :
              Unresolvable(SlicedPlaceholders[k], outcome.media_dir))
             => ItemsText(outcome.items) = outcome.sliced

\* what the item of an unresolvable placeholder is: the filename between
\* "[image: " and "]", however the placeholder was written
C20_FallbackIsFormattedFilename ==
    RenderedWithPlaceholders =>
        \A k \in 1..Len(SlicedPlaceholders) :
            Unresolvable(SlicedPlaceholders[k], outcome.media_dir)
              => outcome.items[ItemOf(k)] =
                   TextItem(ImageOpen \o <<" ">>
                            \o SlicedPlaceholders[k].filename
                            \o <<CloseBracket>>)


\* how many <style>/<script> regions are open after the first k events
RECURSIVE OpenSkips(_, _)
OpenSkips(events, k) ==
    IF k = 0 THEN 0
    ELSE LET e == events[k]
             depth == OpenSkips(events, k - 1)
         IN IF e.kind = "start" /\ e.tag \in SKIP_TAGS THEN depth + 1
            ELSE IF e.kind = "end" /\ e.tag \in SKIP_TAGS /\ depth > 0
            THEN depth - 1
            ELSE depth

\* the k-th event is a tag event for tag, outside every skipped region
IsTag(events, k, kind, tag) ==
    /\ events[k].kind = kind
    /\ events[k].tag = tag
    /\ OpenSkips(events, k - 1) = 0

\* the k-th event is a non-empty text node outside every skipped region
IsText(events, k) ==
    /\ events[k].kind = "data"
    /\ events[k].data # <<>>
    /\ OpenSkips(events, k - 1) = 0

\* the <ruby> tags in front of event k that no </ruby> in between closes
OpenRubyTags(events, k) ==
    { j \in 1..(k - 1) :
        /\ IsTag(events, j, "start", "ruby")
        /\ \A i \in (j + 1)..(k - 1) :
             ~IsTag(events, i, "end", "ruby") /\ ~IsTag(events, i, "start", "ruby") }

\* the text node i of the ruby element opened at j lies in an <rt>: the
\* last rt tag of the element in front of it is an opening one
InReading(events, j, i) ==
    LET rts == { t \in (j + 1)..(i - 1) :
                   IsTag(events, t, "start", "rt") \/ IsTag(events, t, "end", "rt") }
    IN rts # {} /\ events[CHOOSE t \in rts : \A u \in rts : u <= t].kind = "start"

\* the base (reading = FALSE) or the reading (reading = TRUE) of the ruby
\* element whose tags are the events j and k: its text nodes from i on
RECURSIVE RubyText(_, _, _, _, _)
RubyText(events, j, i, k, reading) ==
    IF i >= k THEN <<>>
    ELSE (IF IsText(events, i) /\ InReading(events, j, i) = reading
          THEN events[i].data ELSE <<>>)
         \o RubyText(events, j, i + 1, k, reading)

\* base(reading), or the bare base when no reading was captured
RubyUnit(events, j, k) ==
    LET base == RubyText(events, j, j + 1, k, FALSE)
        reading == RubyText(events, j, j + 1, k, TRUE)
    IN IF reading # <<>> THEN base \o <<"(">> \o reading \o <<")">> ELSE base

\* the step hands the renderer one more event
Feeds == Len(fed') = Len(fed) + 1

\* C23: for every ruby element the transducer emits, at the position of the
\* element in the output, the base text followed by the reading in
\* parentheses when a reading was captured and the bare base text when none
\* was; the text collected inside the element is emitted nowhere else, and
\* the ruby state is reset, so that every element is converted from its own
\* text nodes only.
C23_RubyElementEmittedAsUnit ==
    [][Feeds =>
         LET k == Len(fed')
             open == OpenRubyTags(fed', k)
         IN /\ (IsTag(fed', k, "end", "ruby") /\ open # {})
                 => GetText(renderer') = GetText(renderer)
                      \o RubyUnit(fed', CHOOSE j \in open : TRUE, k)
            /\ (IsText(fed', k) /\ open # {})
                 => GetText(renderer') = GetText(renderer)]_vars

\* the same for the elements that have a base text and no <rt> tag open
\* in front of them
C23_RubyWithBaseEmittedAsUnit ==
    [][Feeds =>
         LET k == Len(fed')
             open == OpenRubyTags(fed', k)
             j == CHOOSE j \in open : TRUE
         IN (/\ IsTag(fed', k, "end", "ruby")
             /\ open # {}
             /\ RubyText(fed', j, j + 1, k, FALSE) # <<>>
             /\ \A t \in 1..j : ~IsTag(fed', t, "start", "rt"))
              => GetText(renderer') = GetText(renderer) \o RubyUnit(fed', j, k)]_vars

\* C30: the transducer never loses text: whatever tags and text nodes were
\* fed, unclosed or unmatched <ruby>, <rt> and list tags included, every
\* non-empty text node outside a <style>/<script> region is part of the
\* text that get_text() returns.
C30_NoTextNodeIsLost ==
    \A k \in 1..Len(fed) :
        IsText(fed, k)
          => \E i \in 1..Len(GetText(renderer)) :
                <<GetText(renderer)[i]>> = fed[k].data


\* the normalized text
Normalized == outcome.result

\* position k of the normalized text is the last of its line
EndsLine(k) == k = Len(Normalized) \/ Normalized[k + 1] = "\n"

\* some character of the line in front of position k is not a space:
\* position k lies in the content of its line, behind the indentation
InContent(k) ==
    \E j \in 1..(k - 1) :
        /\ Normalized[j] \notin {" ", "\n"}
        /\ \A i \in j..k : Normalized[i] # "\n"

\* C24: the result of the whitespace normalization has no run of two or
\* more spaces inside a line's content, no line with trailing whitespace,
\* no two consecutive empty lines, and no empty line at the start or at the
\* end of the document.
C24_NormalizedTextIsTidy ==
    outcome.op = "normalize" =>
        /\ \A k \in 1..(Len(Normalized) - 1) :
             (Normalized[k] = " " /\ Normalized[k + 1] = " ") => ~InContent(k)
        /\ \A k \in 1..Len(Normalized) :
             EndsLine(k) => Normalized[k] \notin LineSpace \cup {"\r"}
        /\ \A k \in 1..(Len(Normalized) - 2) :
             ~(Normalized[k] = "\n" /\ Normalized[k + 1] = "\n"
               /\ Normalized[k + 2] = "\n")
        /\ Normalized # <<>>
             => Normalized[1] # "\n" /\ Normalized[Len(Normalized)] # "\n"

\* empty lines at the start, a line with two spaces between its words and
\* a space at its end, three line ends, one more line: two lines of single
\* spaced words with one empty line between them
C24_Witness ==
    /\ outcome.op = "normalize"
    /\ card_text = <<"\n", "\n", "\n", "x", " ", " ", "x", " ",
                     "\n", "\n", "\n", "x">>
    /\ Normalized = <<"x", " ", "x", "\n", "\n", "x">>


\* the text is one line and has content
IsOneLineWithContent(text) ==
    /\ \A k \in 1..Len(text) : text[k] \notin LineBreaks
    /\ \E k \in 1..Len(text) : text[k] \notin LineSpace

\* a clean indentation: 2k spaces and nothing else
IsCleanIndentation(leading) ==
    /\ \A k \in 1..Len(leading) : leading[k] = " "
    /\ Len(leading) % 2 = 0

\* C25: the normalization keeps a line's leading whitespace only when it is
\* a clean indentation of 2k spaces, which it preserves unchanged; any
\* other leading whitespace (an odd number of spaces, or whitespace with a
\* tab in it) is discarded entirely, so that the line starts at column 0.
C25_OnlyCleanIndentationIsKept ==
    (outcome.op = "normalize" /\ IsOneLineWithContent(card_text))
        => LeadingWhitespace(Normalized) =
             IF IsCleanIndentation(LeadingWhitespace(card_text))
             THEN LeadingWhitespace(card_text)
             ELSE <<>>

\* what is kept: of leading spaces the largest even number of them, of
\* leading whitespace with a tab in it nothing
C25_LeadingSpacesAreRoundedDown ==
    (outcome.op = "normalize" /\ IsOneLineWithContent(card_text))
        => LET leading == LeadingWhitespace(card_text)
           IN LeadingWhitespace(Normalized) =
                IF \A k \in 1..Len(leading) : leading[k] = " "
                THEN Indent(Len(leading) \div 2)
                ELSE <<>>


\* a colour was adjusted whose three channels were parsed
AdjustedColour == outcome.op = "adjust" /\ outcome.colour # Unparseable

\* C26: _adjust_for_contrast returns None for every background colour whose
\* luminance 0.299r+0.587g+0.114b is above 130 and the colour unchanged for
\* every background at or below 130; for a foreground of luminance 0 it
\* returns the fixed gray #b0b0b0, and for no colour does it divide by zero.
C26_BackgroundDroppedAbove130 ==
    AdjustedColour =>
        /\ (outcome.is_bg /\ Luminance(outcome.colour) > 130000)
             => outcome.result = Dropped
        /\ (outcome.is_bg /\ Luminance(outcome.colour) <= 130000)
             => outcome.result = outcome.colour
        /\ (~outcome.is_bg /\ Luminance(outcome.colour) = 0)
             => outcome.result = FixedGray
        /\ 0 \notin outcome.divisors

\* a background of luminance exactly 130 is kept
C26_Witness ==
    /\ AdjustedColour
    /\ outcome.is_bg
    /\ Luminance(outcome.colour) = 130000
    /\ outcome.result = outcome.colour

\* C27: for every foreground colour (r, g, b in 0..255) whose luminance is
\* below 140, _adjust_for_contrast returns a lightened colour that is
\* readable on a dark background: every channel of the result is within
\* 0..255 and the luminance of the result is at least 140.
C27_DarkForegroundBecomesReadable ==
    (/\ AdjustedColour
     /\ ~outcome.is_bg
     /\ \A k \in 1..3 : outcome.colour[k] \in 0..255
     /\ Luminance(outcome.colour) < 140000)
        => /\ outcome.result # Dropped
           /\ \A k \in 1..3 : outcome.result[k] \in 0..255
           /\ Luminance(outcome.result) >= 140000

\* what holds for those colours: the channels of the result are within
\* 0..255, none is darker than before, and the luminance is at least 140
\* unless a channel was clamped to 255
C27_ReadableUnlessClamped ==
    (/\ AdjustedColour
     /\ ~outcome.is_bg
     /\ \A k \in 1..3 : outcome.colour[k] \in 0..255
     /\ Luminance(outcome.colour) < 140000)
        => /\ outcome.result # Dropped
           /\ \A k \in 1..3 : /\ outcome.result[k] \in 0..255
                              /\ outcome.result[k] >= outcome.colour[k]
           /\ (\A k \in 1..3 : outcome.result[k] < 255)
                => Luminance(outcome.result) >= 140000

(* ------------------------- the review screen -------------------------- *)
\* the calls of session.answer made by the step
NewAnswerCalls ==
    SubSeq(screen'.answer_calls, Len(screen.answer_calls) + 1,
           Len(screen'.answer_calls))

\* the step is a key action of the review screen
IsKeyStep == screen.phase = "review" /\ screen'.keys = screen.keys + 1

\* the step changes nothing of the screen but the record of the key
OnlyKeyed == screen' = Keyed(screen, screen'.key)

\* C28: a rating is submitted to the session only while the answer of the
\* current card is revealed: keys 1-4 do nothing on an unrevealed card, space
\* on an unrevealed card only reveals the answer, space on a revealed card
\* submits Good, and after each rating the session took the next card
\* starts unrevealed
C28_RatingOnlyWhenRevealed ==
    [][IsKeyStep =>
        /\ NewAnswerCalls # <<>> =>
             /\ screen.answer_revealed
             /\ screen.current_card # None
             /\ screen'.key \in {"space", "rate"}
             /\ Len(NewAnswerCalls) = 1
             /\ NewAnswerCalls[1].card = screen.current_card
        /\ (screen'.key = "rate" /\ ~screen.answer_revealed) => OnlyKeyed
        /\ (screen'.key = "space" /\ ~screen.answer_revealed) =>
             /\ NewAnswerCalls = <<>>
             /\ screen' = Keyed([screen EXCEPT !.answer_revealed = TRUE],
                                "space")
        /\ (screen'.key = "space" /\ screen.answer_revealed) =>
             /\ Len(NewAnswerCalls) = 1
             /\ NewAnswerCalls[1].rating = Good
        /\ screen'.answered = screen.answered + 1 =>
             /\ ~screen'.answer_revealed
             /\ screen'.current_card = SessionNextCard(screen'.answered)
      ]_vars

\* space revealed the first card and then rated it Good, and the second card
\* is shown unrevealed
C28_Witness ==
    /\ screen.mounted
    /\ screen.phase = "review"
    /\ screen.key = "space"
    /\ screen.keys = 3
    /\ Len(screen.answer_calls) = 1
    /\ screen.answer_calls[1] = [rating |-> Good, card |-> 1]
    /\ screen.answered = 1
    /\ screen.current_card = 2
    /\ ~screen.answer_revealed

\* C29: after every sequence of rating and undo actions reviewed equals
\* again_count + hard_count + good_count + easy_count and is never negative
C29_StatsAreConsistent ==
    screen.mounted =>
        /\ screen.stats.reviewed >= 0
        /\ screen.stats.reviewed =
             screen.stats.again_count + screen.stats.hard_count
             + screen.stats.good_count + screen.stats.easy_count

\* what holds of the stats: reviewed is never negative and never above the
\* sum of the four counts
C29_ReviewedIsAtMostTheCounts ==
    screen.mounted =>
        /\ screen.stats.reviewed >= 0
        /\ screen.stats.reviewed <=
             screen.stats.again_count + screen.stats.hard_count
             + screen.stats.good_count + screen.stats.easy_count

(* --------------------- cloze spans, whitespace repair ----------------- *)
\* the elements open behind the first n events, innermost last
RECURSIVE KindsOpen(_, _)
KindsOpen(events, n) ==
    IF n = 0 THEN <<>>
    ELSE LET before == KindsOpen(events, n - 1)
             event == events[n]
         IN IF event.kind = "start"
            THEN Append(before, OpenedKind(event.tag, event.class))
            ELSE IF event.kind = "end"
            THEN SubSeq(before, 1, Len(before) - 1)
            ELSE before

\* event k lies inside a cloze span
InsideCloze(events, k) == InStack(KindsOpen(events, k - 1), "cloze")

\* the start tags of the cloze spans, and of those outside every other one
ClozeSpans(events) ==
    { k \in DOMAIN events :
        /\ events[k].kind = "start"
        /\ OpenedKind(events[k].tag, events[k].class) = "cloze" }
OutermostClozeSpans(events) ==
    { k \in ClozeSpans(events) : ~InsideCloze(events, k) }

\* the text nodes inside cloze spans
InnerTexts(events) ==
    { k \in DOMAIN events : events[k].kind = "data" /\ InsideCloze(events, k) }

\* the placeholders in the text of the output
PlaceholderCount(segments) ==
    LET out == SegmentsText(segments)
    IN Cardinality({ i \in DOMAIN out : out[i] = ClozePlaceholder[1] })

\* text node k is in the output, in a segment marked is_cloze
ShownAsCloze(segments, events, k) ==
    \E i \in DOMAIN segments :
        /\ segments[i].from = k
        /\ segments[i].is_cloze
        /\ segments[i].text \in {events[k].data, <<Space>> \o events[k].data}

\* nothing of text node k is in the output
NotShown(segments, events, k) ==
    /\ \A i \in DOMAIN segments : segments[i].from # k
    /\ events[k].data # <<Space>> =>
         \A i \in DOMAIN segments :
            \A j \in DOMAIN segments[i].text :
               segments[i].text[j] # events[k].data[1]

\* the two modes on the inner text of the cloze spans
ClozeTextByMode ==
    /\ renderer.mode = "QUESTION" =>
         \A k \in InnerTexts(fed) : NotShown(renderer.segments, fed, k)
    /\ renderer.mode = "ANSWER" =>
         /\ \A k \in InnerTexts(fed) : ShownAsCloze(renderer.segments, fed, k)
         /\ PlaceholderCount(renderer.segments) = 0

\* C21: in QUESTION mode the output has the token [...] once per cloze span
\* and none of the inner text of the span; in ANSWER mode it has the inner
\* text, marked is_cloze, and no [...]; every cloze span by itself
C21_ClozeSpansFollowTheMode ==
    /\ ClozeTextByMode
    /\ renderer.mode = "QUESTION" =>
         PlaceholderCount(renderer.segments) = Cardinality(ClozeSpans(fed))

\* C21 as amended: in QUESTION mode the token [...] is emitted once per cloze
\* span that is not inside another cloze span, at the start tag of the span;
\* a cloze span nested in another one is part of the replaced subtree
C21_OutermostClozeSpansFollowTheMode ==
    /\ ClozeTextByMode
    /\ renderer.mode = "QUESTION" =>
         /\ PlaceholderCount(renderer.segments)
              = Cardinality(OutermostClozeSpans(fed))
         /\ \A k \in OutermostClozeSpans(fed) :
               \E i \in DOMAIN renderer.segments :
                  /\ renderer.segments[i].from = k
                  /\ renderer.segments[i].text \in
                       {ClozePlaceholder, <<Space>> \o ClozePlaceholder}

\* two cloze spans with inner text, one after the other, in QUESTION mode
C21_Witness ==
    /\ renderer.mode = "QUESTION"
    /\ Cardinality(OutermostClozeSpans(fed)) = 2
    /\ Cardinality(InnerTexts(fed)) = 2
    /\ PlaceholderCount(renderer.segments) = 2

\* event k opens, or closes, a styled or cloze unit
OpensUnit(events, k) ==
    /\ events[k].kind = "start"
    /\ OpenedKind(events[k].tag, events[k].class) \in {"cloze", "b"}
ClosesUnit(events, k) ==
    /\ events[k].kind = "end"
    /\ KindsOpen(events, k - 1) # <<>>
    /\ KindsOpen(events, k - 1)[Len(KindsOpen(events, k - 1))] \in {"cloze", "b"}

\* what segment i shows of the source: its text node, or the placeholder
SourceText(segment, events) ==
    IF events[segment.from].kind = "data" THEN events[segment.from].data
    ELSE ClozePlaceholder

\* the spaces at the boundary in front of segment i: the one inserted and
\* the one the unit itself has at this edge
SpacesAt(segment, edge) ==
    (IF segment.repaired THEN 1 ELSE 0) + (IF edge = Space THEN 1 ELSE 0)

\* C22: at every side of an inline styled or cloze unit whose neighbouring
\* character is not a space the text of the segments has exactly one space,
\* and no space is inserted in front of the first content of the output
C22_OneSpaceAtUnitBoundaries ==
    LET segments == renderer.segments
    IN \A i \in DOMAIN segments :
         LET segment == segments[i]
             source == SourceText(segment, fed)
         IN /\ segment.text = (IF segment.repaired THEN <<Space>> ELSE <<>>)
                                \o source
            /\ i = 1 => ~segment.repaired
            /\ i > 1 =>
                 LET before == segments[i - 1]
                     left == before.text[Len(before.text)]
                     right == source[1]
                     between == (before.from + 1)..segment.from
                 IN /\ ((\E k \in between : OpensUnit(fed, k))
                           /\ left # Space)
                        => SpacesAt(segment, right) = 1
                    /\ ((\E k \in between : ClosesUnit(fed, k))
                           /\ right # Space)
                        => SpacesAt(segment, left) = 1

\* word<b>bold</b>next: a space was inserted on both sides of the bold unit
C22_Witness ==
    /\ Len(renderer.segments) = 3
    /\ renderer.segments[2].bold
    /\ renderer.segments[2].repaired
    /\ ~renderer.segments[3].bold
    /\ renderer.segments[3].repaired
    /\ Len(SegmentsText(renderer.segments)) = 5

=============================================================================
